---- MODULE Spec2Model ----
(***************************************************************************)
(* A model of the zmu Cortex-M instruction-set simulator: the numeric      *)
(* primitives of core/operation.rs, the instruction size table of          *)
(* core/instruction.rs, the decoders of decoder/*.rs, the internal bus and *)
(* the host side of a run (src/main.rs, src/lib.rs).                       *)
(*                                                                         *)
(* A 32-bit word is a pair <<hi, lo>> of 16-bit halves, so that every      *)
(* value keeps its full width: W(hi, lo) stands for hi * 2^16 + lo.        *)
(***************************************************************************)
EXTENDS Integers, Sequences, FiniteSets, TLC

VARIABLES
    call,             \* the function applied and its inputs
    ret,              \* what the function returned (or that it panicked)
    psr,              \* APSR flags [n, z, c, v]
    overflow_checks,  \* build profile: rustc's integer overflow checks on/off
    phase,            \* position of the run: boot, run, exited, faulted
    image,            \* the flash image (bytes, address 0 first)
    sp,               \* stack pointer (MSP)
    pc,               \* program counter
    tbit,             \* EPSR.T
    count,            \* retired instructions
    max_instructions, \* the budget given on the command line
    last,             \* the step the run loop took last
    resp,             \* the last semihosting response
    stdout,           \* bytes the host printed
    returned,         \* instruction count the simulation returned
    regfile,          \* core registers R0..R12 and LR
    mem,              \* the SRAM words written so far (the rest reads as 0)
    itstate           \* IT block state

vars == <<call, ret, psr, overflow_checks, phase, image, sp, pc, tbit, count,
          max_instructions, last, resp, stdout, returned, regfile, mem, itstate>>

aluVars == <<call, ret, psr, overflow_checks>>

cpuVars == <<regfile, mem, itstate>>

runVars == <<phase, image, sp, pc, tbit, count, max_instructions, last, resp,
             stdout, returned, cpuVars>>

-----------------------------------------------------------------------------
(* 32-bit words as pairs of 16-bit halves *)

Half == 2 ^ 16

W(hi, lo) == <<hi, lo>>

Hi(w) == w[1]

Lo(w) == w[2]

Zero32 == W(0, 0)

\* x + n for a small non-negative n, modulo 2^32
AddSmall32(x, n) ==
    LET lo == Lo(x) + n
        hi == Hi(x) + (lo \div Half)
    IN  W(hi % Half, lo % Half)

\* x + y modulo 2^32
Add32(x, y) ==
    LET lo == Lo(x) + Lo(y)
        hi == Hi(x) + Hi(y) + (lo \div Half)
    IN  W(hi % Half, lo % Half)

\* bitwise complement
Not32(x) == W(Half - 1 - Hi(x), Half - 1 - Lo(x))

\* x - y modulo 2^32
Sub32(x, y) == Add32(Add32(x, Not32(y)), W(0, 1))

\* unsigned comparison
Lt32(x, y) == Hi(x) < Hi(y) \/ (Hi(x) = Hi(y) /\ Lo(x) < Lo(y))

Ge32(x, y) == ~Lt32(x, y)

Bit31(x) == Hi(x) >= 32768

\* `w as i32`: the two's complement reading of a word
AsI32(w) == IF Bit31(w) THEN (Hi(w) - Half) * Half + Lo(w) ELSE Hi(w) * Half + Lo(w)

I32Max == (2 ^ 30 - 1) * 2 + 1

I32Min == -I32Max - 1

-----------------------------------------------------------------------------
(* core/operation.rs: add_with_carry *)

NoRet == [panic |-> FALSE, none |-> TRUE]

Panic == [panic |-> TRUE, none |-> FALSE]

\* a + b on i32 would leave the i32 range
I32AddOverflows(a, b) ==
    \/ (a >= 0 /\ b > I32Max - a)
    \/ (a < 0 /\ b < I32Min - a)

\* a + b on i32 with the overflow checks off: wraps modulo 2^32
I32WrappingAdd(a, b) ==
    IF a >= 0 /\ b > I32Max - a THEN (a + I32Min) + (b + I32Min)
    ELSE IF a < 0 /\ b < I32Min - a THEN (a - I32Min) + (b - I32Min)
    ELSE a + b

\* rust's `a + b` on i32: a panic with overflow checks on (the default of a
\* debug build), the wrapped sum with them off (the default of a release build)
I32Add(a, b) ==
    IF I32AddOverflows(a, b)
    THEN IF overflow_checks THEN [panic |-> TRUE, val |-> 0]
         ELSE [panic |-> FALSE, val |-> I32WrappingAdd(a, b)]
    ELSE [panic |-> FALSE, val |-> a + b]

Bool2Int(b) == IF b THEN 1 ELSE 0

\* u64::from(x) + u64::from(y) + (carry_in as u64), as <<bits 32.., hi, lo>>
UnsignedSum(x, y, carry_in) ==
    LET lo == Lo(x) + Lo(y) + Bool2Int(carry_in)
        hi == Hi(x) + Hi(y) + (lo \div Half)
    IN  <<hi \div Half, hi % Half, lo % Half>>

\* (x as i32) + (y as i32) + (carry_in as i32), evaluated left to right in i32
SignedSum(x, y, carry_in) ==
    LET s1 == I32Add(AsI32(x), AsI32(y))
    IN  IF s1.panic THEN s1 ELSE I32Add(s1.val, Bool2Int(carry_in))

add_with_carry(x, y, carry_in) ==
    LET unsigned_sum == UnsignedSum(x, y, carry_in)
        signed_sum == SignedSum(x, y, carry_in)
        result == W(unsigned_sum[2], unsigned_sum[3])
        carry_out == <<0, Hi(result), Lo(result)>> # unsigned_sum
    IN  IF signed_sum.panic THEN Panic
        ELSE [panic |-> FALSE, none |-> FALSE, result |-> result,
              carry_out |-> carry_out,
              overflow |-> AsI32(result) # signed_sum.val]

-----------------------------------------------------------------------------
(* core/operation.rs: condition_passed *)

Conditions == {"EQ", "NE", "CS", "CC", "MI", "PL", "VS", "VC",
               "HI", "LS", "GE", "LT", "GT", "LE", "AL"}

Flags == [n : BOOLEAN, z : BOOLEAN, c : BOOLEAN, v : BOOLEAN]

\* condition_passed with the Z term of LE dropped
condition_passed_LeWithoutZ(condition, p) ==
    CASE condition = "EQ" -> p.z
      [] condition = "NE" -> ~p.z
      [] condition = "CS" -> p.c
      [] condition = "CC" -> ~p.c
      [] condition = "MI" -> p.n
      [] condition = "PL" -> ~p.n
      [] condition = "VS" -> p.v
      [] condition = "VC" -> ~p.v
      [] condition = "HI" -> p.c /\ p.z
      [] condition = "LS" -> ~(p.c /\ p.z)
      [] condition = "GE" -> p.n = p.v
      [] condition = "LT" -> ~(p.n = p.v)
      [] condition = "GT" -> (p.n = p.v) /\ ~p.z
      [] condition = "LE" -> ~(p.n = p.v)
      [] condition = "AL" -> TRUE

\* condition_passed whose GT leaves out the Z term
condition_passed_GtWithoutZ(condition, p) ==
    CASE condition = "EQ" -> p.z
      [] condition = "NE" -> ~p.z
      [] condition = "CS" -> p.c
      [] condition = "CC" -> ~p.c
      [] condition = "MI" -> p.n
      [] condition = "PL" -> ~p.n
      [] condition = "VS" -> p.v
      [] condition = "VC" -> ~p.v
      [] condition = "HI" -> p.c /\ p.z
      [] condition = "LS" -> ~(p.c /\ p.z)
      [] condition = "GE" -> p.n = p.v
      [] condition = "LT" -> ~(p.n = p.v)
      [] condition = "GT" -> p.n = p.v
      [] condition = "LE" -> ~((p.n = p.v) /\ ~p.z)
      [] condition = "AL" -> TRUE

condition_passed(condition, p) ==
    CASE condition = "EQ" -> p.z
      [] condition = "NE" -> ~p.z
      [] condition = "CS" -> p.c
      [] condition = "CC" -> ~p.c
      [] condition = "MI" -> p.n
      [] condition = "PL" -> ~p.n
      [] condition = "VS" -> p.v
      [] condition = "VC" -> ~p.v
      [] condition = "HI" -> p.c /\ p.z
      [] condition = "LS" -> ~(p.c /\ p.z)
      [] condition = "GE" -> p.n = p.v
      [] condition = "LT" -> ~(p.n = p.v)
      [] condition = "GT" -> (p.n = p.v) /\ ~p.z
      [] condition = "LE" -> ~((p.n = p.v) /\ ~p.z)
      [] condition = "AL" -> TRUE

-----------------------------------------------------------------------------
(* Executor arithmetic (design section 4.4): flag-setting ADD and SUB *)

\* APSR after a flag-setting add: N and Z from the result, C and V from the adder
SetFlagsFrom(r) ==
    [n |-> Bit31(r.result), z |-> r.result = Zero32,
     c |-> r.carry_out, v |-> r.overflow]

\* ADDS rd, rn, rm: AddWithCarry(rn, rm, 0)
exec_ADDS(x, y) == add_with_carry(x, y, FALSE)

\* SUBS rd, rn, rm: AddWithCarry(rn, NOT rm, 1)
exec_SUBS(x, y) == add_with_carry(x, Not32(y), TRUE)

-----------------------------------------------------------------------------
(* The run is idle while a primitive is exercised on its own *)

NoCmd == [type |-> "none"]

\* no instruction was decoded in the step
NoInstr == [op |-> "none"]

\* what the run loop did last: the kind of step, for a bus access its operands,
\* for a semihosting call its request, and the instruction it decoded
StepRec(kind, addr, width, write, cmd, instr) ==
    [kind |-> kind, addr |-> addr, width |-> width, write |-> write, cmd |-> cmd,
     instr |-> instr]

NoStep == StepRec("none", <<0, 0>>, 0, FALSE, NoCmd, NoInstr)

\* what the run loop did last, for a step that retired the instruction instr
InstrRec(kind, instr) == StepRec(kind, <<0, 0>>, 0, FALSE, NoCmd, instr)

NoResp == [type |-> "none"]

\* the registers the register file holds besides SP and PC
CoreRegs == {"R0", "R1", "R2", "R3", "R4", "R5", "R6", "R7", "R8", "R9", "R10",
             "R11", "R12", "LR"}

\* the register file after Core::new
ResetRegs == [r \in CoreRegs |-> Zero32]

\* SRAM before any store: no word written, every word reads as 0
NoMem == [a \in {} |-> Zero32]

\* IT state: Inactive, or Active{firstcond, mask}
ItInactive == [state |-> "Inactive"]

ItActive(firstcond, mask) == [state |-> "Active", firstcond |-> firstcond, mask |-> mask]

CpuIdle ==
    /\ regfile = ResetRegs
    /\ mem = NoMem
    /\ itstate = ItInactive

RunIdle ==
    /\ CpuIdle
    /\ phase = "idle"
    /\ image = <<>>
    /\ sp = Zero32
    /\ pc = Zero32
    /\ tbit = TRUE
    /\ count = 0
    /\ max_instructions = [limited |-> FALSE, n |-> 0]
    /\ last = NoStep
    /\ resp = NoResp
    /\ stdout = <<>>
    /\ returned = -1

ClearFlags == [n |-> FALSE, z |-> FALSE, c |-> FALSE, v |-> FALSE]

-----------------------------------------------------------------------------
(* SpecAlu: add_with_carry and the adds/subs built on it, over sample words *)

HiSamples == {0, \h7FFF, \h8000, \hFFFF}

LoSamples == {0, 1, 4, \h0410, \hFFFE, \hFFFF}

Words == {W(h, l) : h \in HiSamples, l \in LoSamples}

InitAlu ==
    /\ call \in [fn : {"pending"}, x : Words, y : Words, carry_in : BOOLEAN]
    /\ ret = NoRet
    /\ psr = ClearFlags
    /\ overflow_checks \in BOOLEAN
    /\ RunIdle

AluAddWithCarry ==
    /\ call.fn = "pending"
    /\ call' = [call EXCEPT !.fn = "add_with_carry"]
    /\ ret' = add_with_carry(call.x, call.y, call.carry_in)
    /\ UNCHANGED <<psr, overflow_checks, runVars>>

AluADDS ==
    /\ call.fn = "pending"
    /\ call' = [call EXCEPT !.fn = "ADDS"]
    /\ ret' = exec_ADDS(call.x, call.y)
    /\ psr' = IF ret'.panic THEN psr ELSE SetFlagsFrom(ret')
    /\ UNCHANGED <<overflow_checks, runVars>>

AluSUBS ==
    /\ call.fn = "pending"
    /\ call' = [call EXCEPT !.fn = "SUBS"]
    /\ ret' = exec_SUBS(call.x, call.y)
    /\ psr' = IF ret'.panic THEN psr ELSE SetFlagsFrom(ret')
    /\ UNCHANGED <<overflow_checks, runVars>>

NextAlu == AluAddWithCarry \/ AluADDS \/ AluSUBS

SpecAlu == InitAlu /\ [][NextAlu]_vars

\* x + y + carry_in >= 2^32, stated without forming the sum:
\* y + carry_in exceeds the distance NOT x from x to 2^32 - 1
SumCarries(x, y, carry_in) ==
    Lt32(Not32(x), y) \/ (carry_in /\ y = Not32(x))

\* C5: for every x, y and carry_in, add_with_carry returns
\* result = (x + y + carry_in) mod 2^32 and carry_out = (x + y + carry_in >= 2^32).
C5_ResultAndCarry ==
    call.fn = "add_with_carry" =>
        /\ ~ret.panic
        /\ ret.result = AddSmall32(Add32(call.x, call.y), Bool2Int(call.carry_in))
        /\ ret.carry_out = SumCarries(call.x, call.y, call.carry_in)

\* C6: add_with_carry returns, and its overflow output is true exactly when x and
\* y have the same sign bit and the result's sign bit differs from it; ADDS of
\* 0x7FFFFFFF and 1 gives 0x80000000 with N=1, Z=0, C=0, V=1.
C6_Overflow ==
    /\ call.fn = "add_with_carry" =>
          /\ ~ret.panic
          /\ ret.overflow = (Bit31(call.x) = Bit31(call.y)
                               /\ Bit31(ret.result) # Bit31(call.x))
    /\ (call.fn = "ADDS" /\ call.x = W(\h7FFF, \hFFFF) /\ call.y = W(0, 1)) =>
          /\ ~ret.panic
          /\ ret.result = W(\h8000, 0)
          /\ psr = [n |-> TRUE, z |-> FALSE, c |-> FALSE, v |-> TRUE]

\* C7: SUBS is AddWithCarry(x, NOT y, 1): the result is (x - y) mod 2^32, C = 1
\* exactly when x >= y unsigned, N is bit 31 of the result, Z is result = 0;
\* SUBS of 0 and 1 gives 0xFFFFFFFF with N=1, Z=0, C=0, V=0.
C7_Subtract ==
    call.fn = "SUBS" =>
        /\ ~ret.panic
        /\ ret.result = Sub32(call.x, call.y)
        /\ psr.c = Ge32(call.x, call.y)
        /\ psr.n = Bit31(ret.result)
        /\ psr.z = (ret.result = Zero32)
        /\ (call.x = Zero32 /\ call.y = W(0, 1)) =>
              /\ ret.result = W(\hFFFF, \hFFFF)
              /\ psr = [n |-> TRUE, z |-> FALSE, c |-> FALSE, v |-> FALSE]

-----------------------------------------------------------------------------
(* SpecCond: condition_passed over every condition and every NZCV *)

InitCond ==
    /\ call \in [fn : {"pending"}, cond : Conditions]
    /\ ret = NoRet
    /\ psr \in Flags
    /\ overflow_checks = FALSE
    /\ RunIdle

CondCall ==
    /\ call.fn = "pending"
    /\ call' = [call EXCEPT !.fn = "condition_passed"]
    /\ ret' = [panic |-> FALSE, none |-> FALSE,
               value |-> condition_passed(call.cond, psr)]
    /\ UNCHANGED <<psr, overflow_checks, runVars>>

NextCond == CondCall

SpecCond == InitCond /\ [][NextCond]_vars

\* The ARM ARM condition table
ArmConditionTable(cond, p) ==
    CASE cond = "EQ" -> p.z
      [] cond = "NE" -> ~p.z
      [] cond = "CS" -> p.c
      [] cond = "CC" -> ~p.c
      [] cond = "MI" -> p.n
      [] cond = "PL" -> ~p.n
      [] cond = "VS" -> p.v
      [] cond = "VC" -> ~p.v
      [] cond = "HI" -> p.c /\ ~p.z
      [] cond = "LS" -> ~p.c \/ p.z
      [] cond = "GE" -> p.n = p.v
      [] cond = "LT" -> p.n # p.v
      [] cond = "GT" -> (p.n = p.v) /\ ~p.z
      [] cond = "LE" -> (p.n # p.v) \/ p.z
      [] cond = "AL" -> TRUE

\* C8: for all 16 NZCV combinations condition_passed follows the ARM ARM table
\* for EQ, NE, CS, CC, MI, PL, VS, VC, GE, LT, GT, LE, and AL always passes.
C8_ConditionTable ==
    (call.fn = "condition_passed" /\ call.cond \notin {"HI", "LS"}) =>
        /\ ret.value = ArmConditionTable(call.cond, psr)
        /\ call.cond = "AL" => ret.value

\* LE passes through its Z term alone: Z set while N = V
C8_Witness ==
    /\ call.fn = "condition_passed"
    /\ call.cond = "LE"
    /\ psr.z /\ psr.n = psr.v
    /\ ret.value

\* C9: condition_passed(HI) is true exactly when C = 1 and Z = 0, and
\* condition_passed(LS) exactly when C = 0 or Z = 1.
C9_HiLs ==
    /\ (call.fn = "condition_passed" /\ call.cond = "HI") =>
          ret.value = (psr.c /\ ~psr.z)
    /\ (call.fn = "condition_passed" /\ call.cond = "LS") =>
          ret.value = (~psr.c \/ psr.z)

-----------------------------------------------------------------------------
(* core/instruction.rs: enum Instruction and instruction_size *)

\* the variants of enum Instruction that carry a field thumb32: bool
HasThumb32Marker ==
    {"B_t13", "B_t24", "ADD_imm", "ADD_reg", "ADD_sp_reg", "ADC_reg", "ADR",
     "AND_reg", "BIC_reg", "CMN_reg", "CMP_imm", "CMP_reg", "EOR_reg",
     "MOV_imm", "MOV_reg", "MVN_reg", "ORR_reg", "RSB_imm", "RSB_reg",
     "SBC_reg", "SUB_imm", "SUB_reg", "TST_reg", "ASR_imm", "ASR_reg",
     "LSL_imm", "LSL_reg", "LSR_imm", "LSR_reg", "ROR_reg", "MUL", "SXTB",
     "SXTH", "UXTB", "UXTH", "REV", "REV16", "REVSH", "LDR_imm", "LDR_lit",
     "LDR_reg", "LDRB_imm", "LDRB_reg", "LDRH_imm", "LDRH_reg", "LDRSB_reg",
     "LDRSB_imm", "LDRSH_reg", "LDRSH_imm", "STR_imm", "STRB_reg",
     "STRH_imm", "STRH_reg", "STR_reg", "STRB_imm", "LDM", "POP", "PUSH",
     "STM", "NOP", "SEV", "WFE", "WFI", "YIELD", "UDF"}

\* the variants of enum Instruction without a thumb32 field
NoThumb32Marker ==
    {"BL", "BLX", "BX", "CBZ", "TBB", "TBH", "ADC_imm", "AND_imm", "BIC_imm",
     "CMN_imm", "EOR_imm", "MVN_imm", "ORN_reg", "ORR_imm", "SBC_imm",
     "TEQ_reg", "TEQ_imm", "TST_imm", "ROR_imm", "RRX", "MLA", "MLS",
     "SMLAL", "SMULL", "UMLAL", "UMULL", "SMUL", "SMLA", "UXTAB", "SDIV",
     "UDIV", "UADD8", "BFC", "BFI", "CLZ", "MOVT", "UBFX", "SEL", "MRS",
     "MSR_reg", "CPS", "STRD_imm", "LDREX", "LDREXB", "LDREXH", "LDRD_imm",
     "STREX", "STREXB", "STREXH", "STMDB", "DMB", "DSB", "ISB", "IT",
     "PLD_imm", "PLD_lit", "PLD_reg", "SVC", "BKPT", "MCR", "MCR2",
     "LDC_imm", "LDC2_imm", "VLDR", "VSTR"}

\* the arms of instruction_size that return isize_t(*thumb32)
SizeByMarker ==
    {"ADC_reg", "ADD_imm", "ADD_reg", "ADD_sp_reg", "ADR", "AND_reg",
     "ASR_imm", "ASR_reg", "B_t13", "B_t24", "BIC_reg", "CMN_reg", "CMP_imm",
     "CMP_reg", "EOR_reg", "LDM", "LDR_imm", "LDR_lit", "LDR_reg",
     "LDRB_imm", "LDRB_reg", "LDRH_imm", "LDRH_reg", "LDRSB_imm",
     "LDRSB_reg", "LDRSH_imm", "LDRSH_reg", "LSL_imm", "LSL_reg", "LSR_imm",
     "LSR_reg", "MOV_imm", "MOV_reg", "MUL", "MVN_reg", "NOP", "ORR_reg",
     "POP", "PUSH", "REV", "REV16", "REVSH", "ROR_reg", "RSB_imm", "SBC_reg",
     "SEV", "STM", "STR_imm", "STR_reg", "STRB_imm", "STRB_reg", "STRH_imm",
     "STRH_reg", "SUB_imm", "SUB_reg", "SXTB", "SXTH", "TST_reg", "UDF",
     "UXTB", "UXTH", "WFE", "WFI", "YIELD"}

\* the arms of instruction_size that return 4 whatever the fields (RSB_reg
\* binds thumb32 and does not use it)
SizeAlways4 ==
    {"ADC_imm", "AND_imm", "BFI", "BFC", "BIC_imm", "BL", "CLZ", "CMN_imm",
     "DMB", "DSB", "EOR_imm", "ISB", "LDC_imm", "LDC2_imm", "LDRD_imm",
     "LDREX", "LDREXB", "LDREXH", "MCR", "MCR2", "MLA", "MLS", "MOVT", "MRS",
     "MSR_reg", "MVN_imm", "ORN_reg", "ORR_imm", "PLD_imm", "PLD_lit",
     "PLD_reg", "ROR_imm", "RRX", "RSB_reg", "SBC_imm", "SDIV", "SEL",
     "SMLA", "SMLAL", "SMUL", "SMULL", "STMDB", "STRD_imm", "STREX",
     "STREXB", "STREXH", "TBB", "TBH", "TEQ_imm", "TEQ_reg", "TST_imm",
     "UADD8", "UBFX", "UDIV", "UMLAL", "UMULL", "UXTAB", "VLDR", "VSTR"}

\* the arms of instruction_size that return 2 whatever the fields
SizeAlways2 ==
    {"BKPT", "BLX", "BX", "CBZ", "CPS", "IT", "SVC"}

\* isize_t that answers 2 for every instruction
isize_t_Always2(thumb32) == 2

isize_t(thumb32) == IF thumb32 THEN 4 ELSE 2

instruction_size(instruction) ==
    IF instruction.op \in SizeByMarker THEN isize_t(instruction.thumb32)
    ELSE IF instruction.op \in SizeAlways4 THEN 4
    ELSE 2

-----------------------------------------------------------------------------
(* bit slices of opcodes *)

\* v.get_bit(i) of a 16-bit value
get_bit(v, i) == (v \div (2 ^ i)) % 2 = 1

\* v.get_bits(lo..hi) of a 16-bit value (hi exclusive)
get_bits(v, lo, hi) == (v \div (2 ^ lo)) % (2 ^ (hi - lo))

\* the same on a 32-bit opcode
get_bit32(w, i) == IF i < 16 THEN get_bit(Lo(w), i) ELSE get_bit(Hi(w), i - 16)

get_bits32(w, lo, hi) ==
    IF hi <= 16 THEN get_bits(Lo(w), lo, hi)
    ELSE IF lo >= 16 THEN get_bits(Hi(w), lo - 16, hi - 16)
    ELSE get_bits(Lo(w), lo, 16) + (2 ^ (16 - lo)) * get_bits(Hi(w), 0, hi - 16)

RegNames == <<"R0", "R1", "R2", "R3", "R4", "R5", "R6", "R7", "R8", "R9", "R10",
              "R11", "R12", "SP", "LR", "PC">>

\* Reg::from(n)
Reg_from(n) == RegNames[n + 1]

\* the registers whose bit is set in a 16-bit register list
get_reglist(list) == {Reg_from(i) : i \in {j \in 0..15 : get_bit(list, j)}}

-----------------------------------------------------------------------------
(* decoder/push.rs *)

\* decode_PUSH_t1 that never inserts LR
decode_PUSH_t1_NoLR(opcode) ==
    [op |-> "PUSH", registers |-> get_reglist(opcode % 256), thumb32 |-> FALSE]

decode_PUSH_t1(opcode) ==
    LET regs == get_reglist(opcode % 256)
    IN  [op |-> "PUSH",
         registers |-> IF get_bit(opcode, 8) THEN regs \cup {"LR"} ELSE regs,
         thumb32 |-> FALSE]

\* opcode & 0b0101_1111_1111_1111: bits 13 and 15 of the list are masked off
decode_PUSH_t2(opcode) ==
    LET low == Lo(opcode)
        list == (low % (2 ^ 13)) + (2 ^ 14) * get_bits(low, 14, 15)
    IN  [op |-> "PUSH", registers |-> get_reglist(list), thumb32 |-> TRUE]

decode_PUSH_t3(opcode) ==
    LET rt == get_bits32(opcode, 12, 16)
    IN  [op |-> "PUSH", registers |-> {Reg_from(rt)}, thumb32 |-> TRUE]

-----------------------------------------------------------------------------
(* decoder/str.rs *)

decode_STR_imm_t1(command) ==
    [op |-> "STR_imm",
     rt |-> Reg_from(get_bits(command, 0, 3)),
     rn |-> Reg_from(get_bits(command, 3, 6)),
     imm32 |-> W(0, get_bits(command, 6, 11) * 4),
     index |-> TRUE, add |-> TRUE, wback |-> FALSE, thumb32 |-> FALSE]

decode_STR_imm_t2(command) ==
    [op |-> "STR_imm",
     rt |-> Reg_from(get_bits(command, 8, 11)),
     rn |-> "SP",
     imm32 |-> W(0, get_bits(command, 0, 8) * 4),
     index |-> TRUE, add |-> TRUE, wback |-> FALSE, thumb32 |-> FALSE]

decode_STR_imm_t3(opcode) ==
    [op |-> "STR_imm",
     rt |-> Reg_from(get_bits32(opcode, 12, 16)),
     rn |-> Reg_from(get_bits32(opcode, 16, 20)),
     imm32 |-> W(0, get_bits32(opcode, 0, 12)),
     index |-> TRUE, add |-> TRUE, wback |-> FALSE, thumb32 |-> TRUE]

\* decode_STR_imm_t4 that is always pre-indexed
decode_STR_imm_t4_PreIndexed(opcode) ==
    [op |-> "STR_imm",
     rt |-> Reg_from(get_bits32(opcode, 12, 16)),
     rn |-> Reg_from(get_bits32(opcode, 16, 20)),
     imm32 |-> W(0, get_bits32(opcode, 0, 8)),
     index |-> TRUE,
     add |-> get_bit32(opcode, 9),
     wback |-> get_bit32(opcode, 8),
     thumb32 |-> TRUE]

decode_STR_imm_t4(opcode) ==
    [op |-> "STR_imm",
     rt |-> Reg_from(get_bits32(opcode, 12, 16)),
     rn |-> Reg_from(get_bits32(opcode, 16, 20)),
     imm32 |-> W(0, get_bits32(opcode, 0, 8)),
     index |-> get_bit32(opcode, 10),
     add |-> get_bit32(opcode, 9),
     wback |-> get_bit32(opcode, 8),
     thumb32 |-> TRUE]

-----------------------------------------------------------------------------
(* SpecSize: instruction_size over every instruction shape, and over what the *)
(* PUSH and STR (immediate) decoders return                                   *)

Decoders16 == {"PUSH_t1", "STR_imm_t1", "STR_imm_t2"}

Decoders32 == {"PUSH_t2", "PUSH_t3", "STR_imm_t3", "STR_imm_t4"}

\* the 16-bit decoder entry of that name, applied to an opcode
Decode16(dec, opcode) ==
    CASE dec = "PUSH_t1" -> decode_PUSH_t1(opcode)
      [] dec = "STR_imm_t1" -> decode_STR_imm_t1(opcode)
      [] dec = "STR_imm_t2" -> decode_STR_imm_t2(opcode)

\* the 32-bit decoder entry of that name, applied to an opcode
Decode32(dec, opcode) ==
    CASE dec = "PUSH_t2" -> decode_PUSH_t2(opcode)
      [] dec = "PUSH_t3" -> decode_PUSH_t3(opcode)
      [] dec = "STR_imm_t3" -> decode_STR_imm_t3(opcode)
      [] dec = "STR_imm_t4" -> decode_STR_imm_t4(opcode)

\* instruction values, told apart by what instruction_size reads
InstructionShapes ==
    {[op |-> v, thumb32 |-> b] : v \in HasThumb32Marker, b \in BOOLEAN}
    \cup {[op |-> v] : v \in NoThumb32Marker}

ByteSamples == {\h00, \h01, \h80, \hB4, \hB5, \hFF}

Opcodes16 == {h * 256 + l : h \in ByteSamples, l \in ByteSamples}

Opcodes32 == {W(h, l) : h \in {\h0000, \hE92D, \hF84D, \hF8C0, \hFFFF},
                        l \in {\h0000, \h0D04, \h5FFF, \hA000, \hFFFF}}

InitSize ==
    /\ call \in {[fn |-> "pending", instr |-> i] : i \in InstructionShapes}
            \cup {[fn |-> "pending", dec |-> d, opcode16 |-> o] :
                     d \in Decoders16, o \in Opcodes16}
            \cup {[fn |-> "pending", dec |-> d, opcode32 |-> o] :
                     d \in Decoders32, o \in Opcodes32}
    /\ ret = NoRet
    /\ psr = ClearFlags
    /\ overflow_checks = FALSE
    /\ RunIdle

\* instruction_size of an instruction value
SizeCall ==
    /\ call.fn = "pending"
    /\ "instr" \in DOMAIN call
    /\ call' = [call EXCEPT !.fn = "instruction_size"]
    /\ ret' = [panic |-> FALSE, none |-> FALSE, value |-> instruction_size(call.instr)]
    /\ UNCHANGED <<psr, overflow_checks, runVars>>

\* decode a 16-bit opcode, then take the size of what was decoded
DecodeCall16 ==
    /\ call.fn = "pending"
    /\ "opcode16" \in DOMAIN call
    /\ LET i == Decode16(call.dec, call.opcode16)
       IN  /\ call' = [fn |-> "decode", dec |-> call.dec,
                       opcode16 |-> call.opcode16, instr |-> i]
           /\ ret' = [panic |-> FALSE, none |-> FALSE, value |-> instruction_size(i)]
    /\ UNCHANGED <<psr, overflow_checks, runVars>>

\* decode a 32-bit opcode, then take the size of what was decoded
DecodeCall32 ==
    /\ call.fn = "pending"
    /\ "opcode32" \in DOMAIN call
    /\ LET i == Decode32(call.dec, call.opcode32)
       IN  /\ call' = [fn |-> "decode", dec |-> call.dec,
                       opcode32 |-> call.opcode32, instr |-> i]
           /\ ret' = [panic |-> FALSE, none |-> FALSE, value |-> instruction_size(i)]
    /\ UNCHANGED <<psr, overflow_checks, runVars>>

NextSize == SizeCall \/ DecodeCall16 \/ DecodeCall32

SpecSize == InitSize /\ [][NextSize]_vars

\* C10: instruction_size returns 4 for an instruction whose thumb32 marker is
\* true and 2 for one whose marker is false; a 16-bit decoder entry
\* (decode_PUSH_t1, decode_STR_imm_t1/t2) yields size 2 and a 32-bit one
\* (decode_PUSH_t2/t3, decode_STR_imm_t3/t4) yields size 4.
C10_SizeRule ==
    /\ (call.fn = "instruction_size" /\ call.instr.op \in HasThumb32Marker) =>
          ret.value = (IF call.instr.thumb32 THEN 4 ELSE 2)
    /\ (call.fn = "decode" /\ call.dec \in Decoders16) => ret.value = 2
    /\ (call.fn = "decode" /\ call.dec \in Decoders32) => ret.value = 4

-----------------------------------------------------------------------------
(* bus/internal.rs: the internal private bus *)

INTERNAL_BUS_START == W(\hE000, 0)

INTERNAL_BUS_END == W(\hF000, 0)

\* in_range with the end of the region included
InternalBus_in_range_Closed(addr) ==
    IF Ge32(addr, INTERNAL_BUS_START) /\ ~Lt32(INTERNAL_BUS_END, addr)
    THEN TRUE
    ELSE FALSE

InternalBus_in_range(addr) ==
    IF Ge32(addr, INTERNAL_BUS_START) /\ Lt32(addr, INTERNAL_BUS_END)
    THEN TRUE
    ELSE FALSE

\* an internal bus on which every access succeeds
InternalBus_access_Answers(addr, width, write) == "ok"

\* read8 / read16 / read32 / write8 / write32 of InternalBus: each one panics
InternalBus_access(addr, width, write) == "fault"

-----------------------------------------------------------------------------
(* Flash, RAM and the bus matrix (design section 4.1) *)

FlashLen == 32768

SramLen == 1024

SRAM_BASE == W(\h2000, 0)

FLASH_BASE == W(0, 0)

\* a region [base, base + len) mapped onto a byte buffer of len bytes
Region_in_range(base, len, addr) ==
    Ge32(addr, base) /\ Lt32(Sub32(addr, base), W(0, len))

\* the regions of a run: flash at 0 and SRAM at 0x20000000
DefaultRegions ==
    [flash_base |-> FLASH_BASE, flash_len |-> FlashLen,
     ram_base |-> SRAM_BASE, ram_len |-> SramLen]

Flash_in_range(addr) == Region_in_range(FLASH_BASE, FlashLen, addr)

Sram_in_range(addr) == Region_in_range(SRAM_BASE, SramLen, addr)

\* read16 needs bit 0 clear; read32 / write32 need bits 1:0 clear
Aligned(addr, width) ==
    CASE width = 8 -> TRUE
      [] width = 16 -> Lo(addr) % 2 = 0
      [] width = 32 -> Lo(addr) % 4 = 0

\* AHB-lite: the code region (flash), then SRAM
AHBLite_route(regions, addr) ==
    IF Region_in_range(regions.flash_base, regions.flash_len, addr) THEN "flash"
    ELSE IF Region_in_range(regions.ram_base, regions.ram_len, addr) THEN "sram"
    ELSE "none"

\* a bus matrix that asks AHB-lite before the internal bus
BusMatrix_route_AhbFirst(regions, addr) ==
    IF AHBLite_route(regions, addr) # "none" THEN AHBLite_route(regions, addr)
    ELSE IF InternalBus_in_range(addr) THEN "internal"
    ELSE "none"

\* the child that handles an access, by first match: the internal bus, then
\* AHB-lite
BusMatrix_route(regions, addr) ==
    IF InternalBus_in_range(addr) THEN "internal"
    ELSE AHBLite_route(regions, addr)

\* the outcome of an access through the bus matrix over the given regions
BusMatrix_access_over(regions, addr, width, write) ==
    LET child == BusMatrix_route(regions, addr)
    IN  CASE child = "internal" -> InternalBus_access(addr, width, write)
          [] child = "flash" ->
                IF write \/ ~Aligned(addr, width) THEN "fault" ELSE "ok"
          [] child = "sram" -> IF ~Aligned(addr, width) THEN "fault" ELSE "ok"
          [] child = "none" -> "fault"

\* the bus matrix of a run
BusMatrix_access(addr, width, write) ==
    BusMatrix_access_over(DefaultRegions, addr, width, write)

\* little-endian word of the flash image at byte address a
Flash_read32(img, a) ==
    W(img[a + 3] + 256 * img[a + 4], img[a + 1] + 256 * img[a + 2])

-----------------------------------------------------------------------------
(* src/main.rs: the host's semihosting callback *)

SysExceptionReasons == {"ADPStoppedApplicationExit", "ADPStoppedRunTimeErrorUnknown"}

\* the byte at position i (from 1) of data, or 0 past its end
safe_get(data, i) == IF i <= Len(data) THEN data[i] ELSE 0

\* a UTF-8 continuation byte, 10xxxxxx
IsContinuation(b) == b \in 128..191

\* the second byte a three-byte lead admits: E0 needs A0..BF (no overlong
\* form), ED needs 80..9F (no surrogate), the others any continuation
SecondOfThree(first, second) ==
    \/ first = 224 /\ second \in 160..191
    \/ first \in 225..236 /\ second \in 128..191
    \/ first = 237 /\ second \in 128..159
    \/ first \in 238..239 /\ second \in 128..191

\* the second byte a four-byte lead admits: F0 needs 90..BF, F4 needs 80..8F
SecondOfFour(first, second) ==
    \/ first = 240 /\ second \in 144..191
    \/ first \in 241..243 /\ second \in 128..191
    \/ first = 244 /\ second \in 128..143

\* the chunk at the head of non-empty data: a well-formed character of len
\* bytes, or an ill-formed run of len bytes, which ends before the first byte
\* that cannot continue it
Utf8Chunk(data) ==
    LET first == data[1]
        second == safe_get(data, 2)
        third == safe_get(data, 3)
        fourth == safe_get(data, 4)
        Good(n) == [len |-> n, valid |-> TRUE]
        Bad(n) == [len |-> n, valid |-> FALSE]
    IN  CASE first < 128 -> Good(1)
          [] first \in 194..223 -> IF IsContinuation(second) THEN Good(2) ELSE Bad(1)
          [] first \in 224..239 ->
                IF ~SecondOfThree(first, second) THEN Bad(1)
                ELSE IF ~IsContinuation(third) THEN Bad(2)
                ELSE Good(3)
          [] first \in 240..244 ->
                IF ~SecondOfFour(first, second) THEN Bad(1)
                ELSE IF ~IsContinuation(third) THEN Bad(2)
                ELSE IF ~IsContinuation(fourth) THEN Bad(3)
                ELSE Good(4)
          [] OTHER -> Bad(1)

\* String::from_utf8_lossy, as the bytes of the string it returns: well-formed
\* UTF-8 is kept, and each ill-formed run becomes one U+FFFD, EF BF BD
RECURSIVE from_utf8_lossy(_)
from_utf8_lossy(data) ==
    IF data = <<>> THEN <<>>
    ELSE LET chunk == Utf8Chunk(data)
         IN  (IF chunk.valid THEN SubSeq(data, 1, chunk.len) ELSE <<239, 191, 189>>)
             \o from_utf8_lossy(SubSeq(data, chunk.len + 1, Len(data)))

\* a callback that stops the run on every SysException
semihost_func_StopsAlways(cmd, in_cs) ==
    CASE cmd.type = "SysOpen" ->
            [resp |-> [type |-> "SysOpen", ok |-> TRUE, result |-> 1], out |-> <<>>]
      [] cmd.type = "SysClose" ->
            [resp |-> [type |-> "SysClose", success |-> TRUE], out |-> <<>>]
      [] cmd.type = "SysWrite" ->
            [resp |-> [type |-> "SysWrite", ok |-> TRUE, result |-> 0],
             out |-> IF cmd.handle = 1 THEN from_utf8_lossy(cmd.data) ELSE <<>>]
      [] cmd.type = "SysClock" ->
            [resp |-> [type |-> "SysClock", ok |-> TRUE, result |-> in_cs],
             out |-> <<>>]
      [] cmd.type = "SysException" ->
            [resp |-> [type |-> "SysException", success |-> TRUE, stop |-> TRUE],
             out |-> <<>>]

\* the response to a command, and the bytes printed while answering it
semihost_func(cmd, in_cs) ==
    CASE cmd.type = "SysOpen" ->
            [resp |-> [type |-> "SysOpen", ok |-> TRUE, result |-> 1], out |-> <<>>]
      [] cmd.type = "SysClose" ->
            [resp |-> [type |-> "SysClose", success |-> TRUE], out |-> <<>>]
      [] cmd.type = "SysWrite" ->
            [resp |-> [type |-> "SysWrite", ok |-> TRUE, result |-> 0],
             out |-> IF cmd.handle = 1 THEN from_utf8_lossy(cmd.data) ELSE <<>>]
      [] cmd.type = "SysClock" ->
            [resp |-> [type |-> "SysClock", ok |-> TRUE, result |-> in_cs],
             out |-> <<>>]
      [] cmd.type = "SysException" ->
            [resp |-> [type |-> "SysException", success |-> TRUE,
                       stop |-> IF cmd.reason = "ADPStoppedApplicationExit"
                                THEN TRUE ELSE FALSE],
             out |-> <<>>]

-----------------------------------------------------------------------------
(* Spec: one run of the simulator, from the command line to its end *)

MaxSteps == 3

MaxBudget == 2

SpBytes == {<<\h08, \h04, \h00, \h20>>, <<\hFF, \hFF, \hFF, \hFF>>}

PcBytes == {<<\hA1, \h04, \h00, \h00>>, <<\hA0, \h04, \h00, \h00>>,
            <<\hFF, \hFF, \hFF, \hFF>>, <<\h01, \h00, \h00, \hE0>>}

Images == {s \o p : s \in SpBytes, p \in PcBytes}

\* --max_instructions N, or no such flag
Budgets == {[limited |-> FALSE, n |-> 0]} \cup
           {[limited |-> TRUE, n |-> k] : k \in 0..MaxBudget}

\* what a guest writes: nothing, "hi", a byte that is never part of UTF-8, the
\* two bytes of U+00E9, and a three-byte character cut short
WriteData == {<<>>, <<104, 105>>, <<255>>, <<195, 169>>, <<226, 130>>}

SemihostingCommands ==
    {[type |-> "SysOpen"], [type |-> "SysClose"], [type |-> "SysClock"]}
    \cup {[type |-> "SysWrite", handle |-> h, data |-> d] :
             h \in {1, 2}, d \in WriteData}
    \cup {[type |-> "SysException", reason |-> r] : r \in SysExceptionReasons}

ClockSamples == {0, 7}

AccessAddrs == {W(0, 0), W(0, 3), W(\h2000, 0), W(\h2000, SramLen),
                W(\hE000, 0), W(\hF000, 0)}

Widths == {8, 16, 32}

\* decoded instructions that access no memory and do not write PC: a 16-bit
\* and a 32-bit encoding
PlainInstrs == {[op |-> "MOV_imm", thumb32 |-> FALSE],
                [op |-> "MOV_imm", thumb32 |-> TRUE]}

\* branch offsets: forwards by 8, and back onto the branch itself
BranchOffsets == {W(0, 8), W(\hFFFF, \hFFFC)}

Init ==
    /\ call = [fn |-> "run"]
    /\ ret = NoRet
    /\ psr = ClearFlags
    /\ overflow_checks = FALSE
    /\ phase = "boot"
    /\ image \in Images
    /\ sp = Zero32
    /\ pc = Zero32
    /\ tbit \in BOOLEAN
    /\ count = 0
    /\ max_instructions \in Budgets
    /\ last = NoStep
    /\ resp = NoResp
    /\ stdout = <<>>
    /\ returned = -1
    /\ CpuIdle

\* a reset that keeps bit 0 of the reset vector in PC
ResetKeepsThumbBit ==
    /\ phase = "boot"
    /\ sp' = Flash_read32(image, 0)
    /\ pc' = Flash_read32(image, 4)
    /\ tbit' = TRUE
    /\ phase' = "run"
    /\ last' = StepRec("reset", Zero32, 0, FALSE, NoCmd, NoInstr)
    /\ UNCHANGED <<aluVars, cpuVars, image, count, max_instructions, resp, stdout, returned>>

\* reset(): SP <- word at 0, PC <- word at 4 with bit 0 cleared, T = 1
Reset ==
    /\ phase = "boot"
    /\ sp' = Flash_read32(image, 0)
    /\ pc' = LET v == Flash_read32(image, 4) IN W(Hi(v), Lo(v) - (Lo(v) % 2))
    /\ tbit' = TRUE
    /\ phase' = "run"
    /\ last' = StepRec("reset", Zero32, 0, FALSE, NoCmd, NoInstr)
    /\ UNCHANGED <<aluVars, cpuVars, image, count, max_instructions, resp, stdout, returned>>

\* the halfword at PC can be fetched
FetchOk == BusMatrix_access(pc, 16, FALSE) = "ok"

Running == phase = "run" /\ count < MaxSteps

\* the fetch of the next instruction faults
StepFetchFault ==
    /\ Running
    /\ ~FetchOk
    /\ phase' = "faulted"
    /\ last' = StepRec("fetch", pc, 16, FALSE, NoCmd, NoInstr)
    /\ UNCHANGED <<aluVars, cpuVars, image, sp, pc, tbit, count, max_instructions, resp,
                   stdout, returned>>

\* a step that advances PC by 2 whatever it decoded
StepRetire_Always2(instr) ==
    /\ Running
    /\ FetchOk
    /\ pc' = AddSmall32(pc, 2)
    /\ count' = count + 1
    /\ last' = InstrRec("plain", instr)
    /\ UNCHANGED <<aluVars, cpuVars, phase, image, sp, tbit, max_instructions, resp,
                   stdout, returned>>

\* an instruction that touches no memory and does not write PC: PC advances by
\* its decoded size
StepRetire(instr) ==
    /\ Running
    /\ FetchOk
    /\ pc' = AddSmall32(pc, instruction_size(instr))
    /\ count' = count + 1
    /\ last' = InstrRec("plain", instr)
    /\ UNCHANGED <<aluVars, cpuVars, phase, image, sp, tbit, max_instructions, resp,
                   stdout, returned>>

\* the 16-bit load or store of that width
MemInstr(width, write) ==
    [op |-> CASE width = 8 -> IF write THEN "STRB_imm" ELSE "LDRB_imm"
              [] width = 16 -> IF write THEN "STRH_imm" ELSE "LDRH_imm"
              [] width = 32 -> IF write THEN "STR_imm" ELSE "LDR_imm",
     thumb32 |-> FALSE]

\* B_t24: PC = PC + 4 + imm32
StepBranch(imm32) ==
    /\ Running
    /\ FetchOk
    /\ pc' = Add32(AddSmall32(pc, 4), imm32)
    /\ count' = count + 1
    /\ last' = InstrRec("branch", [op |-> "B_t24", imm32 |-> imm32, thumb32 |-> FALSE])
    /\ UNCHANGED <<aluVars, cpuVars, phase, image, sp, tbit, max_instructions, resp,
                   stdout, returned>>

\* a 16-bit load or store: one bus access of the given width at addr
StepMemAccess(addr, width, write) ==
    /\ Running
    /\ FetchOk
    /\ last' = StepRec("mem", addr, width, write, NoCmd, MemInstr(width, write))
    /\ IF BusMatrix_access(addr, width, write) = "ok"
       THEN /\ pc' = AddSmall32(pc, instruction_size(MemInstr(width, write)))
            /\ count' = count + 1
            /\ UNCHANGED phase
       ELSE /\ phase' = "faulted"
            /\ UNCHANGED <<pc, count>>
    /\ UNCHANGED <<aluVars, cpuVars, image, sp, tbit, max_instructions, resp, stdout,
                   returned>>

\* UDF, SVC, or a BKPT that is not the semihosting breakpoint
StepTrap(kind) ==
    /\ Running
    /\ FetchOk
    /\ phase' = "faulted"
    /\ last' = StepRec(kind, Zero32, 0, FALSE, NoCmd, [op |-> kind])
    /\ UNCHANGED <<aluVars, cpuVars, image, sp, pc, tbit, count, max_instructions, resp,
                   stdout, returned>>

\* the semihosting breakpoint
SemihostBkpt == [op |-> "BKPT", imm32 |-> W(0, \hAB)]

\* BKPT 0xAB: the request goes to the host callback and PC moves past the
\* breakpoint; a stop response ends the run, which returns the instruction count
StepSemihost(cmd, in_cs) ==
    /\ Running
    /\ FetchOk
    /\ LET r == semihost_func(cmd, in_cs)
           stop == r.resp.type = "SysException" /\ r.resp.stop
       IN  /\ resp' = r.resp
           /\ stdout' = stdout \o r.out
           /\ count' = count + 1
           /\ pc' = AddSmall32(pc, instruction_size(SemihostBkpt))
           /\ IF stop
              THEN phase' = "exited" /\ returned' = count'
              ELSE UNCHANGED <<phase, returned>>
    /\ last' = StepRec("semihost", Zero32, 0, FALSE, cmd, SemihostBkpt)
    /\ UNCHANGED <<aluVars, cpuVars, image, sp, tbit, max_instructions>>

Next ==
    \/ Reset
    \/ StepFetchFault
    \/ \E instr \in PlainInstrs : StepRetire(instr)
    \/ \E imm32 \in BranchOffsets : StepBranch(imm32)
    \/ \E addr \in AccessAddrs, width \in Widths, write \in BOOLEAN :
           StepMemAccess(addr, width, write)
    \/ \E kind \in {"UDF", "SVC", "BKPT"} : StepTrap(kind)
    \/ \E cmd \in SemihostingCommands, in_cs \in ClockSamples : StepSemihost(cmd, in_cs)

Spec == Init /\ [][Next]_vars

\* the first eight bytes of the hello_world image
HelloHeader == <<\h08, \h04, \h00, \h20, \hA1, \h04, \h00, \h00>>

\* C1: after reset() SP is the little-endian word at 0x0, PC is the word at 0x4
\* with bit 0 cleared and T = 1; the image starting SP=0x20000408, PC=0x000004A1
\* gives SP=0x20000408, PC=0x000004A0.
C1_Reset ==
    last.kind = "reset" =>
        /\ Lo(sp) % 256 = image[1] /\ Lo(sp) \div 256 = image[2]
        /\ Hi(sp) % 256 = image[3] /\ Hi(sp) \div 256 = image[4]
        /\ Lo(pc) % 256 = image[5] - (image[5] % 2) /\ Lo(pc) \div 256 = image[6]
        /\ Hi(pc) % 256 = image[7] /\ Hi(pc) \div 256 = image[8]
        /\ tbit
        /\ image = HelloHeader => (sp = W(\h2000, \h0408) /\ pc = W(0, \h04A0))

\* the hello_world image has been reset, from a core whose T bit was clear
C1_Witness ==
    /\ last.kind = "reset"
    /\ image = HelloHeader
    /\ sp = W(\h2000, \h0408)
    /\ pc = W(0, \h04A0)
    /\ tbit

\* C2: with --max_instructions N the number of retired instructions never
\* exceeds N.
C2_BudgetRespected ==
    max_instructions.limited => count <= max_instructions.n

\* C3: a SysException request ends the run exactly when its reason is
\* ADP_Stopped_ApplicationExit: the callback answers stop = true for that reason
\* and stop = false for any other; after a stop no further instruction is
\* executed and the run returns the retired-instruction count.
C3_ExitOnApplicationExit ==
    /\ []((last.kind = "semihost" /\ last.cmd.type = "SysException") =>
            /\ resp.type = "SysException"
            /\ resp.stop = (last.cmd.reason = "ADPStoppedApplicationExit")
            /\ (phase = "exited") = (last.cmd.reason = "ADPStoppedApplicationExit"))
    /\ [](phase = "exited" =>
            /\ last.kind = "semihost" /\ last.cmd.type = "SysException"
            /\ returned = count)
    /\ [][phase = "exited" => UNCHANGED <<count, pc, phase, returned>>]_vars

\* the guest asked to exit as its third instruction
C3_Witness ==
    /\ phase = "exited"
    /\ last.cmd = [type |-> "SysException", reason |-> "ADPStoppedApplicationExit"]
    /\ resp.stop
    /\ count = 3
    /\ returned = 3

\* a step that the claim calls a fault: UDF, SVC, a BKPT outside semihosting, or
\* a bus access (the fetch included) that no memory claims or that is misaligned
FaultingStep(l) ==
    \/ l.kind \in {"UDF", "SVC", "BKPT"}
    \/ /\ l.kind \in {"mem", "fetch"}
       /\ \/ ~(Flash_in_range(l.addr) \/ Sram_in_range(l.addr))
          \/ ~Aligned(l.addr, l.width)

\* C4: a fault halts the run: the faulting instruction is not retired, no
\* instruction is retired after it and the run loop does not resume.
C4_FaultHalts ==
    /\ [][(last' # last /\ FaultingStep(last')) =>
             (phase' = "faulted" /\ count' = count)]_vars
    /\ [][phase = "faulted" => UNCHANGED vars]_vars

\* the second instruction read from the internal private bus
C4_Witness ==
    /\ phase = "faulted"
    /\ last.kind = "mem"
    /\ InternalBus_in_range(last.addr)
    /\ ~last.write
    /\ count = 1

-----------------------------------------------------------------------------
(* decoder/*.rs: the entries of encodings that are not implemented *)

\* ThumbCode::from(opcode) of a 32-bit opcode: the raw opcode, tagged as 32-bit
ThumbCode_from(opcode) == [width |-> 32, opcode |-> opcode]

\* Instruction::UDF { imm32: 0, opcode: ThumbCode::from(opcode) }
UDF_of(opcode) ==
    [panic |-> FALSE, none |-> FALSE,
     value |-> [op |-> "UDF", imm32 |-> Zero32, opcode |-> ThumbCode_from(opcode)]]

decode_ADC_reg_t2(opcode) == UDF_of(opcode)

\* unimplemented!(): the decoder panics
decode_ADC_imm_t1(opcode) == Panic

decode_ADD_reg_t3(opcode) == UDF_of(opcode)

\* unimplemented!(): the decoder panics
decode_ADD_imm_t4(opcode) == Panic

decode_STRB_imm_t2(opcode) == UDF_of(opcode)

decode_STRB_imm_t3(opcode) == UDF_of(opcode)

decode_STRB_reg_t2(opcode) == UDF_of(opcode)

decode_STRH_imm_t2(opcode) == UDF_of(opcode)

decode_STRH_imm_t3(opcode) == UDF_of(opcode)

decode_STR_reg_t2(opcode) == UDF_of(opcode)

decode_STRD_imm_t1(opcode) == UDF_of(opcode)

decode_ROR_reg_t2(opcode) == UDF_of(opcode)

\* the decoder entries whose encoding is not implemented
StubDecoders ==
    {"ADC_reg_t2", "ADC_imm_t1", "ADD_reg_t3", "ADD_imm_t4", "STRB_imm_t2",
     "STRB_imm_t3", "STRB_reg_t2", "STRH_imm_t2", "STRH_imm_t3", "STR_reg_t2",
     "STRD_imm_t1", "ROR_reg_t2"}

\* the stub entry of that name, applied to an opcode
DecodeStub(dec, opcode) ==
    CASE dec = "ADC_reg_t2" -> decode_ADC_reg_t2(opcode)
      [] dec = "ADC_imm_t1" -> decode_ADC_imm_t1(opcode)
      [] dec = "ADD_reg_t3" -> decode_ADD_reg_t3(opcode)
      [] dec = "ADD_imm_t4" -> decode_ADD_imm_t4(opcode)
      [] dec = "STRB_imm_t2" -> decode_STRB_imm_t2(opcode)
      [] dec = "STRB_imm_t3" -> decode_STRB_imm_t3(opcode)
      [] dec = "STRB_reg_t2" -> decode_STRB_reg_t2(opcode)
      [] dec = "STRH_imm_t2" -> decode_STRH_imm_t2(opcode)
      [] dec = "STRH_imm_t3" -> decode_STRH_imm_t3(opcode)
      [] dec = "STR_reg_t2" -> decode_STR_reg_t2(opcode)
      [] dec = "STRD_imm_t1" -> decode_STRD_imm_t1(opcode)
      [] dec = "ROR_reg_t2" -> decode_ROR_reg_t2(opcode)

InitUdf ==
    /\ call \in [fn : {"pending"}, dec : StubDecoders, opcode32 : Opcodes32]
    /\ ret = NoRet
    /\ psr = ClearFlags
    /\ overflow_checks = FALSE
    /\ RunIdle

StubCall ==
    /\ call.fn = "pending"
    /\ call' = [call EXCEPT !.fn = "decode_stub"]
    /\ ret' = DecodeStub(call.dec, call.opcode32)
    /\ UNCHANGED <<psr, overflow_checks, runVars>>

NextUdf == StubCall

SpecUdf == InitUdf /\ [][NextUdf]_vars

\* C11: every decoder entry of an encoding that is not implemented returns, for
\* every opcode, a UDF instruction that carries the raw opcode; it never aborts.
C11_StubsReturnUdf ==
    call.fn = "decode_stub" =>
        /\ ~ret.panic
        /\ ret.value.op = "UDF"
        /\ ret.value.opcode.opcode = call.opcode32

-----------------------------------------------------------------------------
(* SpecBus: single accesses on the internal bus and through the bus matrix *)

\* where the host maps its regions: as in a run, or with SRAM or flash placed
\* inside the private peripheral range
RegionLayouts ==
    {DefaultRegions,
     [DefaultRegions EXCEPT !.ram_base = W(\hE000, 0)],
     [DefaultRegions EXCEPT !.flash_base = W(\hEFFF, \h8000)]}

BusAddrs == AccessAddrs \cup
            {W(0, 2), W(0, FlashLen), W(\h2000, 1), W(\hDFFF, \hFFFF),
             W(\hE000, \h03FC), W(\hEFFF, \h8000), W(\hEFFF, \hFFFC),
             W(\hFFFF, \hFFFF)}

\* a word the guest stored earlier
MemSamples == {NoMem, [a \in {SRAM_BASE} |-> W(\h1234, \h5678)]}

InitBus ==
    /\ call \in [fn : {"pending"}, addr : BusAddrs, width : Widths,
                 write : BOOLEAN, regions : RegionLayouts]
    /\ ret = NoRet
    /\ psr = ClearFlags
    /\ overflow_checks = FALSE
    /\ regfile = ResetRegs
    /\ mem \in MemSamples
    /\ itstate = ItInactive
    /\ phase = "idle"
    /\ image = <<>>
    /\ sp = Zero32
    /\ pc = Zero32
    /\ tbit = TRUE
    /\ count = 0
    /\ max_instructions = [limited |-> FALSE, n |-> 0]
    /\ last = NoStep
    /\ resp = NoResp
    /\ stdout = <<>>
    /\ returned = -1

\* the Bus trait has read8, read16, read32, write8 and write32
BusOperation(width, write) == ~(write /\ width = 16)

\* InternalBus::in_range(addr)
InRangeCall ==
    /\ call.fn = "pending"
    /\ call' = [call EXCEPT !.fn = "in_range"]
    /\ ret' = [panic |-> FALSE, none |-> FALSE,
               value |-> InternalBus_in_range(call.addr)]
    /\ UNCHANGED <<psr, overflow_checks, runVars>>

\* one of InternalBus::read8 / read16 / read32 / write8 / write32
InternalAccessCall ==
    /\ call.fn = "pending"
    /\ BusOperation(call.width, call.write)
    /\ call' = [call EXCEPT !.fn = "internal_access"]
    /\ ret' = IF InternalBus_access(call.addr, call.width, call.write) = "fault"
              THEN Panic
              ELSE [panic |-> FALSE, none |-> FALSE, value |-> 0]
    /\ UNCHANGED <<psr, overflow_checks, runVars>>

\* one access through the bus matrix: the child that takes it, and the outcome
MatrixAccessCall ==
    /\ call.fn = "pending"
    /\ BusOperation(call.width, call.write)
    /\ call' = [call EXCEPT !.fn = "matrix_access"]
    /\ ret' = [panic |-> BusMatrix_access_over(call.regions, call.addr,
                                               call.width, call.write) = "fault",
               none |-> FALSE,
               handler |-> BusMatrix_route(call.regions, call.addr)]
    /\ UNCHANGED <<psr, overflow_checks, runVars>>

NextBus == InRangeCall \/ InternalAccessCall \/ MatrixAccessCall

SpecBus == InitBus /\ [][NextBus]_vars

\* addr lies in 0xE0000000 .. 0xEFFFFFFF
InPrivateRange(addr) == Hi(addr) >= \hE000 /\ Hi(addr) <= \hEFFF

\* the regions of a layout that claim addr
ClaimedByFlash(regions, addr) ==
    Region_in_range(regions.flash_base, regions.flash_len, addr)

ClaimedBySram(regions, addr) ==
    Region_in_range(regions.ram_base, regions.ram_len, addr)

\* C12: the bus matrix routes by first match, internal bus first: an access in
\* the internal range is handled by the internal bus and faults whatever flash
\* or SRAM would claim; an address claimed by flash or SRAM only is handled by
\* that region; an address no child claims faults.
C12_FirstMatch ==
    call.fn = "matrix_access" =>
        /\ InPrivateRange(call.addr) => (ret.handler = "internal" /\ ret.panic)
        /\ (~InPrivateRange(call.addr) /\ ClaimedByFlash(call.regions, call.addr)
              /\ ~ClaimedBySram(call.regions, call.addr)) => ret.handler = "flash"
        /\ (~InPrivateRange(call.addr) /\ ClaimedBySram(call.regions, call.addr)
              /\ ~ClaimedByFlash(call.regions, call.addr)) => ret.handler = "sram"
        /\ (~InPrivateRange(call.addr) /\ ~ClaimedByFlash(call.regions, call.addr)
              /\ ~ClaimedBySram(call.regions, call.addr)) =>
                 (ret.handler = "none" /\ ret.panic)

\* an aligned read at an address that both the internal bus and the SRAM of the
\* layout claim went to the internal bus and faulted
C12_Witness ==
    /\ call.fn = "matrix_access"
    /\ InPrivateRange(call.addr)
    /\ ClaimedBySram(call.regions, call.addr)
    /\ ~call.write
    /\ ret.handler = "internal"
    /\ ret.panic

\* C13: InternalBus.in_range(addr) is true exactly for
\* 0xE0000000 <= addr < 0xF0000000, and every read8, read16, read32, write8 and
\* write32 on the internal bus is a fault that returns no value and changes no
\* state.
C13_InternalBus ==
    /\ [](call.fn = "in_range" => ret.value = InPrivateRange(call.addr))
    /\ [](call.fn = "internal_access" => ret = Panic)
    /\ [][call'.fn = "internal_access" => UNCHANGED <<cpuVars, sp, pc, psr>>]_vars

\* a write32 to the first word of the region faulted, and the word the guest
\* had stored in SRAM is still there
C13_Witness ==
    /\ call.fn = "internal_access"
    /\ call.addr = INTERNAL_BUS_START
    /\ call.write /\ call.width = 32
    /\ ret = Panic
    /\ mem # NoMem

-----------------------------------------------------------------------------
(* Executor: PUSH and POP (design section 4.4, loads and stores) *)

\* the number of a register: R0 is 0, ..., LR is 14
Reg_index(r) == CHOOSE i \in 0..15 : RegNames[i + 1] = r

\* the registers of a set, lowest number first
RECURSIVE RegsInOrder(_)
RegsInOrder(registers) ==
    IF registers = {} THEN <<>>
    ELSE LET first == CHOOSE r \in registers :
                          \A q \in registers : Reg_index(r) <= Reg_index(q)
         IN  <<first>> \o RegsInOrder(registers \ {first})

\* the word of SRAM at addr
Mem_read32(m, addr) == IF addr \in DOMAIN m THEN m[addr] ELSE Zero32

\* SRAM after a word store at addr
Mem_write32(m, addr, value) ==
    [a \in DOMAIN m \cup {addr} |-> IF a = addr THEN value ELSE m[a]]

\* the address of the i-th word (i from 1) at and above base
WordAt(base, i) == AddSmall32(base, 4 * (i - 1))

\* the first of n word accesses from base that the bus faults, or 0 if none does
FirstFault(base, n, write) ==
    LET bad == {i \in 1..n : BusMatrix_access(WordAt(base, i), 32, write) = "fault"}
    IN  IF bad = {} THEN 0 ELSE CHOOSE i \in bad : \A j \in bad : i <= j

\* SRAM after the first k registers of list were stored upwards from base
RECURSIVE StoreRegs(_, _, _, _, _)
StoreRegs(m, rf, list, base, k) ==
    IF k = 0 THEN m
    ELSE Mem_write32(StoreRegs(m, rf, list, base, k - 1), WordAt(base, k), rf[list[k]])

\* the register file after the first k registers of list were loaded upwards
\* from base
LoadRegs(m, rf, list, base, k) ==
    [r \in DOMAIN rf |->
        IF \E i \in 1..k : list[i] = r
        THEN Mem_read32(m, WordAt(base, CHOOSE i \in 1..k : list[i] = r))
        ELSE rf[r]]

\* a PUSH that stores downwards from SP - 4, lowest register first
exec_PUSH_Descending(registers, rf, stack, m) ==
    LET list == RegsInOrder(registers)
        n == Len(list)
        rev == [i \in 1..n |-> list[n + 1 - i]]
        base == Sub32(stack, W(0, 4 * n))
        f == FirstFault(base, n, TRUE)
    IN  IF f # 0
        THEN [fault |-> TRUE, mem |-> StoreRegs(m, rf, rev, base, f - 1), sp |-> stack]
        ELSE [fault |-> FALSE, mem |-> StoreRegs(m, rf, rev, base, n), sp |-> base]

\* PUSH {registers}: the base is SP - 4*count; the registers are stored in
\* numerical order at increasing addresses; then SP becomes the base
exec_PUSH(registers, rf, stack, m) ==
    LET list == RegsInOrder(registers)
        n == Len(list)
        base == Sub32(stack, W(0, 4 * n))
        f == FirstFault(base, n, TRUE)
    IN  IF f # 0
        THEN [fault |-> TRUE, mem |-> StoreRegs(m, rf, list, base, f - 1), sp |-> stack]
        ELSE [fault |-> FALSE, mem |-> StoreRegs(m, rf, list, base, n), sp |-> base]

\* POP {registers}: the registers are loaded in numerical order from SP
\* upwards; then SP becomes SP + 4*count
exec_POP(registers, rf, stack, m) ==
    LET list == RegsInOrder(registers)
        n == Len(list)
        f == FirstFault(stack, n, FALSE)
    IN  IF f # 0
        THEN [fault |-> TRUE, regfile |-> LoadRegs(m, rf, list, stack, f - 1),
              sp |-> stack]
        ELSE [fault |-> FALSE, regfile |-> LoadRegs(m, rf, list, stack, n),
              sp |-> AddSmall32(stack, 4 * n)]

-----------------------------------------------------------------------------
(* SpecStack: PUSH {regs}, any use of the registers, POP {regs} *)

\* the register sets the PUSH decoders produce from sample opcodes
RegisterSets ==
    {decode_PUSH_t1(o).registers : o \in Opcodes16}
    \cup {decode_PUSH_t2(o).registers : o \in Opcodes32}

\* register files with a different value in every register
RegFiles ==
    {[r \in CoreRegs |-> W(\h1000 + Reg_index(r), Reg_index(r))],
     [r \in CoreRegs |-> W(\hFFFF, \hFFF0 + Reg_index(r))]}

\* the top of SRAM, the middle, near the bottom, and a misaligned value
StackPointers ==
    {AddSmall32(SRAM_BASE, SramLen), W(\h2000, \h0040), W(\h2000, \h0008),
     W(\h2000, \h0102)}

InitStack ==
    /\ \E registers \in RegisterSets, rf \in RegFiles, stack \in StackPointers :
          /\ call = [fn |-> "start", registers |-> registers, regfile0 |-> rf,
                     sp0 |-> stack]
          /\ regfile = rf
          /\ sp = stack
    /\ ret = NoRet
    /\ psr = ClearFlags
    /\ overflow_checks = FALSE
    /\ mem = NoMem
    /\ itstate = ItInactive
    /\ phase = "idle"
    /\ image = <<>>
    /\ pc = Zero32
    /\ tbit = TRUE
    /\ count = 0
    /\ max_instructions = [limited |-> FALSE, n |-> 0]
    /\ last = NoStep
    /\ resp = NoResp
    /\ stdout = <<>>
    /\ returned = -1

stackFrame == <<psr, overflow_checks, phase, image, pc, tbit, count,
                max_instructions, last, resp, stdout, returned, itstate>>

StackPush ==
    /\ call.fn = "start"
    /\ LET r == exec_PUSH(call.registers, regfile, sp, mem)
       IN  /\ mem' = r.mem
           /\ sp' = r.sp
           /\ call' = [call EXCEPT !.fn = IF r.fault THEN "push_fault" ELSE "pushed"]
           /\ ret' = IF r.fault THEN Panic ELSE [panic |-> FALSE, none |-> FALSE]
    /\ UNCHANGED <<regfile, stackFrame>>

\* the code between the PUSH and the POP overwrites every register
StackClobber ==
    /\ call.fn = "pushed"
    /\ regfile' = [r \in CoreRegs |-> Not32(regfile[r])]
    /\ call' = [call EXCEPT !.fn = "clobbered"]
    /\ UNCHANGED <<ret, mem, sp, stackFrame>>

StackPop ==
    /\ call.fn \in {"pushed", "clobbered"}
    /\ LET r == exec_POP(call.registers, regfile, sp, mem)
       IN  /\ regfile' = r.regfile
           /\ sp' = r.sp
           /\ call' = [call EXCEPT !.fn = IF r.fault THEN "pop_fault" ELSE "popped"]
           /\ ret' = IF r.fault THEN Panic ELSE [panic |-> FALSE, none |-> FALSE]
    /\ UNCHANGED <<mem, stackFrame>>

NextStack == StackPush \/ StackClobber \/ StackPop

SpecStack == InitStack /\ [][NextStack]_vars

\* how many registers of the set have a lower number than r
LowerRegs(registers, r) ==
    Cardinality({q \in registers : Reg_index(q) < Reg_index(r)})

\* C14: PUSH {regs} followed by POP {regs} with the same set restores every
\* register of the set to its value before the PUSH and leaves SP as it was
\* before the PUSH; PUSH stores the registers in numerical order starting at
\* SP - 4*count.
C14_PushPop ==
    LET n == Cardinality(call.registers)
        base == Sub32(call.sp0, W(0, 4 * n))
    IN  /\ call.fn = "pushed" =>
              /\ sp = base
              /\ \A r \in call.registers :
                    Mem_read32(mem, AddSmall32(base, 4 * LowerRegs(call.registers, r)))
                       = call.regfile0[r]
        /\ call.fn = "popped" =>
              /\ sp = call.sp0
              /\ \A r \in call.registers : regfile[r] = call.regfile0[r]

\* PUSH {R0-R7, LR}, the registers overwritten, POP of the same nine registers
C14_Witness ==
    /\ call.fn = "popped"
    /\ call.registers = {"R0", "R1", "R2", "R3", "R4", "R5", "R6", "R7", "LR"}
    /\ sp = call.sp0
    /\ regfile = call.regfile0
    /\ Mem_read32(mem, Sub32(call.sp0, W(0, 4))) = call.regfile0["LR"]

-----------------------------------------------------------------------------
(* Executor: the IT block state machine (design section 4.4) *)

\* the IT instruction: Active with the decoded mask
it_start(firstcond, mask) == ItActive(firstcond, mask)

\* an advance that shifts the mask without cutting it to four bits
it_advance_Unmasked(state) ==
    IF state.state = "Inactive" THEN state
    ELSE LET m == state.mask * 2
         IN  IF m = 0 THEN ItInactive ELSE ItActive(state.firstcond, m)

\* after a retirement: mask := (mask << 1) & 0xF; Inactive when that is 0
it_advance(state) ==
    IF state.state = "Inactive" THEN state
    ELSE LET m == (state.mask * 2) % 16
         IN  IF m = 0 THEN ItInactive ELSE ItActive(state.firstcond, m)

-----------------------------------------------------------------------------
(* SpecIT: a run of IT instructions and the instructions they cover *)

MaxItSteps == 6

\* the mask field of an IT encoding: four bits, not all zero
ItMasks == 1..15

FirstConds == {"EQ", "NE", "HI"}

InitIT ==
    /\ call = [fn |-> "it", covered |-> 0]
    /\ ret = NoRet
    /\ psr = ClearFlags
    /\ overflow_checks = FALSE
    /\ regfile = ResetRegs
    /\ mem = NoMem
    /\ itstate = ItInactive
    /\ phase = "run"
    /\ image = <<>>
    /\ sp = AddSmall32(SRAM_BASE, SramLen)
    /\ pc = W(0, \h04A0)
    /\ tbit = TRUE
    /\ count = 0
    /\ max_instructions = [limited |-> FALSE, n |-> 0]
    /\ last = NoStep
    /\ resp = NoResp
    /\ stdout = <<>>
    /\ returned = -1

itFrame == <<ret, psr, overflow_checks, regfile, mem, phase, image, sp, tbit,
             max_instructions, resp, stdout, returned>>

\* an IT instruction, outside an IT block; call.covered counts the
\* instructions retired since it
ItInstruction(firstcond, mask) ==
    /\ count < MaxItSteps
    /\ itstate = ItInactive
    /\ itstate' = it_start(firstcond, mask)
    /\ pc' = AddSmall32(pc, 2)
    /\ count' = count + 1
    /\ last' = InstrRec("IT", [op |-> "IT", firstcond |-> firstcond, mask |-> mask])
    /\ call' = [call EXCEPT !.covered = 0]
    /\ UNCHANGED itFrame

\* any other instruction retires, inside or outside an IT block
ItRetire(thumb32) ==
    /\ count < MaxItSteps
    /\ itstate' = it_advance(itstate)
    /\ pc' = AddSmall32(pc, isize_t(thumb32))
    /\ count' = count + 1
    /\ last' = InstrRec("plain", [op |-> "NOP", thumb32 |-> thumb32])
    /\ call' = [call EXCEPT !.covered = IF itstate = ItInactive THEN @ ELSE @ + 1]
    /\ UNCHANGED itFrame

NextIT ==
    \/ \E firstcond \in FirstConds, mask \in ItMasks : ItInstruction(firstcond, mask)
    \/ \E thumb32 \in BOOLEAN : ItRetire(thumb32)

SpecIT == InitIT /\ [][NextIT]_vars

\* C15: an IT instruction makes the IT state Active with its decoded mask; each
\* later retirement replaces mask by (mask << 1) & 0xF; the state becomes
\* Inactive exactly when the low nibble becomes 0, so a block covers 1 to 4
\* instructions, the state is Inactive again after at most 4 retirements and
\* stays Inactive until the next IT instruction.
C15_ItBlock ==
    /\ [][(count' # count /\ last'.kind = "IT") =>
             (/\ itstate'.state = "Active"
              /\ itstate'.mask = last'.instr.mask
              /\ itstate'.firstcond = last'.instr.firstcond)]_vars
    /\ [][(count' # count /\ last'.kind # "IT" /\ itstate.state = "Active") =>
             IF (itstate.mask * 2) % 16 = 0
             THEN itstate'.state = "Inactive"
             ELSE /\ itstate'.state = "Active"
                  /\ itstate'.mask = (itstate.mask * 2) % 16]_vars
    /\ [][(count' # count /\ last'.kind # "IT" /\ itstate.state = "Inactive") =>
             itstate'.state = "Inactive"]_vars
    /\ [](itstate.state = "Active" => (itstate.mask % 16 # 0 /\ call.covered <= 3))
    /\ []((itstate.state = "Inactive" /\ last.kind = "plain") => call.covered <= 4)

\* a block of four instructions (mask 0001) has just ended, six steps after the
\* start: IT, the four instructions it covers, and one instruction before
C15_Witness ==
    /\ itstate.state = "Inactive"
    /\ call.covered = 4
    /\ last.kind = "plain"
    /\ count = 6

-----------------------------------------------------------------------------
(* Claims about the run loop and the host callback, continued *)

\* how many leading bytes of data the host output gained, unchanged and in order
BytesWritten(before, after, data) ==
    LET fits == {k \in 0..Len(data) :
                    /\ Len(after) >= Len(before) + k
                    /\ SubSeq(after, 1, Len(before)) = before
                    /\ SubSeq(after, Len(before) + 1, Len(before) + k)
                          = SubSeq(data, 1, k)}
    IN  IF fits = {} THEN 0 ELSE CHOOSE k \in fits : \A j \in fits : j <= k

\* C16: the response to SysWrite{handle, data} carries the number of bytes of
\* data that were not written to the host; it is Ok(0) only when all of data
\* was written (for handle 1 to stdout, unchanged and in order).
C16_SysWriteResult ==
    [][(count' # count /\ last'.kind = "semihost" /\ last'.cmd.type = "SysWrite") =>
          /\ resp'.type = "SysWrite"
          /\ resp'.ok
          /\ resp'.result = Len(last'.cmd.data)
                              - BytesWritten(stdout, stdout', last'.cmd.data)]_vars

\* the instructions of the run that write PC themselves
WritesPC(instr) == instr.op \in {"B_t13", "B_t24", "BL", "BLX", "BX", "CBZ"}

\* C17: in every step whose instruction does not itself write PC, PC after the
\* step is PC before the step plus the decoded size of the instruction (2 or
\* 4), and the retired-instruction counter goes up by exactly 1 per step.
C17_PcAdvance ==
    [][count' # count =>
          /\ count' = count + 1
          /\ ~WritesPC(last'.instr) =>
                /\ instruction_size(last'.instr) \in {2, 4}
                /\ pc' = AddSmall32(pc, instruction_size(last'.instr))]_vars

\* after the reset of the hello_world image a 32-bit instruction was retired
C17_Witness ==
    /\ image = HelloHeader
    /\ count = 1
    /\ last.kind = "plain"
    /\ last.instr.thumb32
    /\ pc = W(0, \h04A4)

-----------------------------------------------------------------------------
(* core/operation.rs: decode_imm_shift, lsl_c, shift_c *)

SRType == {"LSL", "LSR", "ASR", "RRX", "ROR"}

\* the pair (shift type, amount) a decode returns
ShiftOf(shift_t, shift_n) ==
    [panic |-> FALSE, none |-> FALSE, shift_t |-> shift_t, shift_n |-> shift_n]

\* decode_imm_shift without the rule that an immediate 0 means 32
decode_imm_shift_ZeroIsZero(typebits, imm5) ==
    LET t == get_bits(typebits, 0, 3)
    IN  CASE t = 0 -> ShiftOf("LSL", imm5)
          [] t = 1 -> ShiftOf("LSR", imm5)
          [] t = 2 -> ShiftOf("ASR", imm5)
          [] t = 3 -> IF imm5 = 0 THEN ShiftOf("RRX", 1) ELSE ShiftOf("ROR", imm5)
          [] OTHER -> Panic

\* decode_imm_shift returning RRX with the immediate itself, 0
decode_imm_shift_RrxZero(typebits, imm5) ==
    LET t == get_bits(typebits, 0, 3)
    IN  CASE t = 0 -> ShiftOf("LSL", imm5)
          [] t = 1 -> ShiftOf("LSR", IF imm5 = 0 THEN 32 ELSE imm5)
          [] t = 2 -> ShiftOf("ASR", IF imm5 = 0 THEN 32 ELSE imm5)
          [] t = 3 -> IF imm5 = 0 THEN ShiftOf("RRX", 0) ELSE ShiftOf("ROR", imm5)
          [] OTHER -> Panic

\* the match is on typebits.get_bits(0..3), three bits; 4..7 fall through to
\* panic!("invalid typebits")
decode_imm_shift(typebits, imm5) ==
    LET t == get_bits(typebits, 0, 3)
    IN  CASE t = 0 -> ShiftOf("LSL", imm5)
          [] t = 1 -> ShiftOf("LSR", IF imm5 = 0 THEN 32 ELSE imm5)
          [] t = 2 -> ShiftOf("ASR", IF imm5 = 0 THEN 32 ELSE imm5)
          [] t = 3 -> IF imm5 = 0 THEN ShiftOf("RRX", 1) ELSE ShiftOf("ROR", imm5)
          [] OTHER -> Panic

\* bit i of u64::from(value) << k, for k in 0..63
Shl64_bit(value, k, i) == i >= k /\ i - k <= 31 /\ get_bit32(value, i - k)

\* bits lo .. lo + 15 of u64::from(value) << k, as a number
RECURSIVE Shl64_bits(_, _, _, _)
Shl64_bits(value, k, lo, n) ==
    IF n = 0 THEN 0
    ELSE Shl64_bits(value, k, lo, n - 1)
         + (IF Shl64_bit(value, k, lo + n - 1) THEN 2 ^ (n - 1) ELSE 0)

\* the value and carry of a shift result
ShiftResult(value, carry) ==
    [panic |-> FALSE, none |-> FALSE, value |-> value, carry |-> carry]

\* an lsl_c whose carry is always bit 31 of the value
lsl_c_CarryFromBit31(value, shift) ==
    IF ~(shift > 0) THEN Panic
    ELSE IF shift >= 64 /\ overflow_checks THEN Panic
    ELSE LET k == shift % 64
         IN  ShiftResult(W(Shl64_bits(value, k, 16, 16), Shl64_bits(value, k, 0, 16)),
                         get_bit32(value, 31))

\* assert!(shift > 0); extended = u64::from(value) << shift, which for a shift
\* of 64 or more panics with overflow checks on and uses shift mod 64 with
\* them off; the result is bits 0..32 and the carry is bit 32
lsl_c(value, shift) ==
    IF ~(shift > 0) THEN Panic
    ELSE IF shift >= 64 /\ overflow_checks THEN Panic
    ELSE LET k == shift % 64
         IN  ShiftResult(W(Shl64_bits(value, k, 16, 16), Shl64_bits(value, k, 0, 16)),
                         Shl64_bit(value, k, 32))

\* the condition of the assert! that opens shift_c
shift_c_precondition(shift_t, amount) == ~((shift_t = "RRX") /\ (amount # 1))

\* assert!(!(shift_t == RRX && amount != 1)); amount 0 passes the value and
\* carry through; of the shifts only LSL is implemented
shift_c(value, shift_t, amount, carry_in) ==
    IF ~shift_c_precondition(shift_t, amount) THEN Panic
    ELSE IF amount = 0 THEN ShiftResult(value, carry_in)
    ELSE IF shift_t = "LSL" THEN lsl_c(value, amount)
    ELSE Panic

-----------------------------------------------------------------------------
(* SpecShift: decode_imm_shift over every typebits and imm5, shift_c over *)
(* sample values and amounts                                              *)

TypeBits == 0..255

Imm5s == 0..31

ShiftValues == {W(0, 0), W(0, 1), W(\h8000, 0), W(\h4000, \h0001), W(\hFFFF, \hFFFF)}

ShiftAmounts == {0, 1, 4, 16, 31, 32, 33, 64}

\* operands of a shift whose amount comes from the decode
OperandValues == {W(0, 1), W(\h8000, 0)}

InitShift ==
    /\ call \in [fn : {"pending"}, typebits : TypeBits, imm5 : Imm5s]
            \cup [fn : {"pending"}, value : ShiftValues, shift_t : SRType,
                  amount : ShiftAmounts, carry_in : BOOLEAN]
            \cup [fn : {"pending"}, type2 : 0..3, imm : Imm5s,
                  operand : OperandValues, carry : BOOLEAN]
    /\ ret = NoRet
    /\ psr = ClearFlags
    /\ overflow_checks \in BOOLEAN
    /\ RunIdle

DecodeImmShiftCall ==
    /\ call.fn = "pending"
    /\ "typebits" \in DOMAIN call
    /\ call' = [call EXCEPT !.fn = "decode_imm_shift"]
    /\ ret' = decode_imm_shift(call.typebits, call.imm5)
    /\ UNCHANGED <<psr, overflow_checks, runVars>>

ShiftCCall ==
    /\ call.fn = "pending"
    /\ "shift_t" \in DOMAIN call
    /\ call' = [call EXCEPT !.fn = "shift_c"]
    /\ ret' = shift_c(call.value, call.shift_t, call.amount, call.carry_in)
    /\ UNCHANGED <<psr, overflow_checks, runVars>>

\* decode_imm_shift on a 2-bit type and a 5-bit immediate, its result handed to
\* shift_c; accepted records whether the assertion of shift_c let it through
DecodeThenShiftCall ==
    /\ call.fn = "pending"
    /\ "type2" \in DOMAIN call
    /\ call' = [call EXCEPT !.fn = "decode_then_shift"]
    /\ LET decoded == decode_imm_shift(call.type2, call.imm)
       IN  ret' = IF decoded.panic THEN Panic
                  ELSE [panic |-> FALSE, none |-> FALSE,
                        shift_t |-> decoded.shift_t, shift_n |-> decoded.shift_n,
                        accepted |-> shift_c_precondition(decoded.shift_t, decoded.shift_n),
                        out |-> shift_c(call.operand, decoded.shift_t,
                                        decoded.shift_n, call.carry)]
    /\ UNCHANGED <<psr, overflow_checks, runVars>>

NextShift == DecodeImmShiftCall \/ ShiftCCall \/ DecodeThenShiftCall

SpecShift == InitShift /\ [][NextShift]_vars

\* the table of the design: 00 -> LSL; 01 -> LSR (0 means 32); 10 -> ASR (0
\* means 32); 11 -> RRX/1 for imm5 = 0, else ROR
ShiftTable(type, imm5) ==
    CASE type = 0 -> <<"LSL", imm5>>
      [] type = 1 -> <<"LSR", IF imm5 = 0 THEN 32 ELSE imm5>>
      [] type = 2 -> <<"ASR", IF imm5 = 0 THEN 32 ELSE imm5>>
      [] type = 3 -> IF imm5 = 0 THEN <<"RRX", 1>> ELSE <<"ROR", imm5>>

\* C18: for every type in 0..3 and imm5 in 0..31 decode_imm_shift(type, imm5)
\* returns (LSL, imm5), (LSR, 32 if imm5 = 0 else imm5), (ASR, 32 if imm5 = 0
\* else imm5), and for type 11 (RRX, 1) if imm5 = 0 else (ROR, imm5).
C18_ShiftTable ==
    (call.fn = "decode_imm_shift" /\ call.typebits \in 0..3) =>
        /\ ~ret.panic
        /\ <<ret.shift_t, ret.shift_n>> = ShiftTable(call.typebits, call.imm5)

\* LSR #0 was decoded as a shift by 32
C18_Witness ==
    /\ call.fn = "decode_imm_shift"
    /\ call.typebits = 1
    /\ call.imm5 = 0
    /\ ret.shift_t = "LSR"
    /\ ret.shift_n = 32

\* C19: decode_imm_shift is a 2-bit dispatch: for every 8-bit typebits and
\* every imm5 it returns a result, and the result depends only on bits 1:0 of
\* typebits.
C19_TwoBitDispatch ==
    call.fn = "decode_imm_shift" =>
        /\ ~ret.panic
        /\ <<ret.shift_t, ret.shift_n>> = ShiftTable(call.typebits % 4, call.imm5)

\* C20: for every shift type, value and carry_in, shift_c(value, type, 0,
\* carry_in) returns (value, carry_in).
C20_ShiftByZero ==
    (call.fn = "shift_c" /\ call.amount = 0) =>
        /\ ~ret.panic
        /\ ret.value = call.value
        /\ ret.carry = call.carry_in

-----------------------------------------------------------------------------
(* Claims about the shifts, continued *)

\* (value * 2^n) mod 2^32 for n in 0..32, by arithmetic on the halves
TimesPow2(value, n) ==
    IF n < 16
    THEN LET lo == Lo(value) * (2 ^ n)
             hi == Hi(value) * (2 ^ n) + (lo \div Half)
         IN  W(hi % Half, lo % Half)
    ELSE IF n < 32 THEN W((Lo(value) * (2 ^ (n - 16))) % Half, 0)
    ELSE Zero32

\* C21: for every value, carry_in and amount in 1..32, shift_c(value, LSL,
\* amount, carry_in) returns (value * 2^amount) mod 2^32 with carry_out = bit
\* (32 - amount) of value; carry_in does not influence the outcome.
C21_LslResult ==
    (call.fn = "shift_c" /\ call.shift_t = "LSL" /\ call.amount \in 1..32) =>
        /\ ~ret.panic
        /\ ret.value = TimesPow2(call.value, call.amount)
        /\ ret.carry = get_bit32(call.value, 32 - call.amount)

\* 0x40000001 shifted left by 31 with carry_in set: bit 0 moved to bit 31, and
\* the carry is bit 1 of the value, which is clear
C21_Witness ==
    /\ call.fn = "shift_c"
    /\ call.shift_t = "LSL"
    /\ call.value = W(\h4000, \h0001)
    /\ call.amount = 31
    /\ call.carry_in
    /\ ret.value = W(\h8000, 0)
    /\ ~ret.carry

\* bit i of the value shifted right by amount with zero fill
LsrBit(value, amount, i) == i + amount <= 31 /\ get_bit32(value, i + amount)

\* bit i of the value shifted right by amount with the sign bit filled in
AsrBit(value, amount, i) ==
    get_bit32(value, IF i + amount <= 31 THEN i + amount ELSE 31)

\* bit i of the value rotated right by amount
RorBit(value, amount, i) == get_bit32(value, (i + amount) % 32)

\* bit i of the value shifted right by one with carry_in at bit 31
RrxBit(value, carry_in, i) == IF i = 31 THEN carry_in ELSE get_bit32(value, i + 1)

\* what the right shifts are to return: for each type the bits of the result
\* and the last bit shifted out
RightShiftHolds(shift_t, value, amount, carry_in, out) ==
    /\ ~out.panic
    /\ \A i \in 0..31 :
          get_bit32(out.value, i) =
              CASE shift_t = "LSR" -> LsrBit(value, amount, i)
                [] shift_t = "ASR" -> AsrBit(value, amount, i)
                [] shift_t = "ROR" -> RorBit(value, amount, i)
                [] shift_t = "RRX" -> RrxBit(value, carry_in, i)
    /\ out.carry =
          CASE shift_t = "LSR" -> LsrBit(value, amount - 1, 0)
            [] shift_t = "ASR" -> AsrBit(value, amount - 1, 0)
            [] shift_t = "ROR" -> RorBit(value, amount, 31)
            [] shift_t = "RRX" -> get_bit32(value, 0)

\* C22: for amount >= 1 shift_c returns the shifted value and the last bit
\* shifted out for LSR (zero fill), ASR (sign-extending) and ROR (wrap around),
\* and for RRX with amount 1 the value shifted right by one with carry_in at
\* bit 31 and carry_out = bit 0 of the value.
C22_RightShifts ==
    (/\ call.fn = "shift_c"
     /\ \/ call.shift_t \in {"LSR", "ASR", "ROR"} /\ call.amount >= 1
        \/ call.shift_t = "RRX" /\ call.amount = 1) =>
        RightShiftHolds(call.shift_t, call.value, call.amount, call.carry_in, ret)

\* C29: every (type, amount) that decode_imm_shift returns for a 2-bit type and
\* a 5-bit immediate passes the assertion of shift_c: RRX comes only with
\* amount 1, and the amount is in 0..31 for LSL, 1..32 for LSR and ASR and
\* 1..31 for ROR.
C29_DecodedShiftAccepted ==
    call.fn = "decode_then_shift" =>
        /\ ~ret.panic
        /\ ret.accepted
        /\ ret.shift_t = "RRX" => ret.shift_n = 1
        /\ ret.shift_t = "LSL" => ret.shift_n \in 0..31
        /\ ret.shift_t \in {"LSR", "ASR"} => ret.shift_n \in 1..32
        /\ ret.shift_t = "ROR" => ret.shift_n \in 1..31

\* type 11 with immediate 0 decoded to RRX and was handed to shift_c
C29_Witness ==
    /\ call.fn = "decode_then_shift"
    /\ call.type2 = 3
    /\ call.imm = 0
    /\ ret.shift_t = "RRX"
    /\ ret.shift_n = 1
    /\ ret.accepted

-----------------------------------------------------------------------------
(* core/operation.rs: sign_extend *)

\* the number whose bit k, for k in 0..n-1, is set when lo + k is in S
RECURSIVE SetBits(_, _, _)
SetBits(S, lo, n) ==
    IF n = 0 THEN 0
    ELSE SetBits(S, lo, n - 1) + (IF (lo + n - 1) \in S THEN 2 ^ (n - 1) ELSE 0)

\* the word whose set bits are the positions in S
WordOfBits(S) == W(SetBits(S, 16, 16), SetBits(S, 0, 16))

BitsOf(w) == {i \in 0..31 : get_bit32(w, i)}

\* x | y
Or32(x, y) == WordOfBits(BitsOf(x) \cup BitsOf(y))

\* ((1 << n) - 1) << topbit on u32, for n and topbit in 0..31: n ones from
\* bit topbit up, what passes bit 31 is dropped
OnesFrom(topbit, n) == WordOfBits({i \in 0..31 : i >= topbit /\ i - topbit < n})

\* the i32 a call returns
I32Result(v) == [panic |-> FALSE, none |-> FALSE, value |-> v]

\* the shifts are on u32 with a u8 amount: an amount of 32 or more panics with
\* overflow checks on and is taken mod 32 with them off; size - topbit is a u8
\* subtraction; the result is the word read as i32
sign_extend(word, topbit, size) ==
    IF topbit >= 32 /\ overflow_checks THEN Panic
    ELSE LET t == topbit % 32
         IN  IF ~get_bit32(word, t) THEN I32Result(AsI32(word))
             ELSE IF size < topbit /\ overflow_checks THEN Panic
             ELSE LET d == (size - topbit) % 256
                  IN  IF d >= 32 /\ overflow_checks THEN Panic
                      ELSE I32Result(AsI32(Or32(word, OnesFrom(t, d % 32))))

-----------------------------------------------------------------------------
(* SpecExtend: sign_extend over every topbit < size <= 32 and words with *)
(* nothing set above topbit                                             *)

TopBits == 0..31

Sizes == 1..32

\* words with no bit above topbit: zero, the top bit alone, the top bit and
\* bit 0, every bit up to topbit, every bit below topbit
WordsUpTo(topbit) ==
    {WordOfBits({}), WordOfBits({topbit}), WordOfBits({0, topbit}),
     WordOfBits(0..topbit), WordOfBits(0..(topbit - 1))}

InitExtend ==
    /\ \E t \in TopBits : \E z \in Sizes : \E w \in WordsUpTo(t) :
          /\ t < z
          /\ call = [fn |-> "pending", word |-> w, topbit |-> t, size |-> z]
    /\ ret = NoRet
    /\ psr = ClearFlags
    /\ overflow_checks \in BOOLEAN
    /\ RunIdle

SignExtendCall ==
    /\ call.fn = "pending"
    /\ call' = [call EXCEPT !.fn = "sign_extend"]
    /\ ret' = sign_extend(call.word, call.topbit, call.size)
    /\ UNCHANGED <<psr, overflow_checks, runVars>>

NextExtend == SignExtendCall

SpecExtend == InitExtend /\ [][NextExtend]_vars

\* bit i of an i32 in two's complement
I32Bit(v, i) ==
    IF i = 31 THEN v < 0
    ELSE ((IF v < 0 THEN v - I32Min ELSE v) \div (2 ^ i)) % 2 = 1

\* C23: for 0 <= topbit < size <= 32 and a word with nothing set above topbit,
\* sign_extend(word, topbit, size) returns a value whose bits topbit..size-1
\* all equal bit topbit of the word and whose bits below topbit are the word's.
C23_SignExtend ==
    (/\ call.fn = "sign_extend"
     /\ call.topbit < call.size
     /\ call.size <= 32) =>
        /\ ~ret.panic
        /\ \A i \in call.topbit..(call.size - 1) :
              I32Bit(ret.value, i) = get_bit32(call.word, call.topbit)
        /\ \A i \in 0..(call.topbit - 1) :
              I32Bit(ret.value, i) = get_bit32(call.word, i)

-----------------------------------------------------------------------------
(* SpecPush: decode_PUSH_t1 over every low nine bits of a 16-bit opcode, *)
(* decode_PUSH_t2 over register lists with each single bit, none and all *)

\* the upper seven bits of a 16-bit opcode: those of PUSH, none, all
UpperBits == {\h5A, \h00, \h7F}

PushOpcodes16 == {u * 512 + l : u \in UpperBits, l \in 0..511}

RegisterLists == {2 ^ i : i \in 0..15} \cup {\h0000, \h5FFF, \hA000, \hFFFF}

PushOpcodes32 == {W(h, l) : h \in {\hE92D, \hFFFF}, l \in RegisterLists}

InitPush ==
    /\ call \in [fn : {"pending"}, opcode16 : PushOpcodes16]
            \cup [fn : {"pending"}, opcode32 : PushOpcodes32]
    /\ ret = NoRet
    /\ psr = ClearFlags
    /\ overflow_checks = FALSE
    /\ RunIdle

PushT1Call ==
    /\ call.fn = "pending"
    /\ "opcode16" \in DOMAIN call
    /\ call' = [call EXCEPT !.fn = "decode_PUSH_t1"]
    /\ ret' = [panic |-> FALSE, none |-> FALSE, instr |-> decode_PUSH_t1(call.opcode16)]
    /\ UNCHANGED <<psr, overflow_checks, runVars>>

PushT2Call ==
    /\ call.fn = "pending"
    /\ "opcode32" \in DOMAIN call
    /\ call' = [call EXCEPT !.fn = "decode_PUSH_t2"]
    /\ ret' = [panic |-> FALSE, none |-> FALSE, instr |-> decode_PUSH_t2(call.opcode32)]
    /\ UNCHANGED <<psr, overflow_checks, runVars>>

NextPush == PushT1Call \/ PushT2Call

SpecPush == InitPush /\ [][NextPush]_vars

\* C24: for every 16-bit opcode decode_PUSH_t1 returns PUSH with thumb32 =
\* false whose register set is exactly the Ri, 0 <= i <= 7, with bit i of the
\* opcode set, together with LR exactly when bit 8 is set; R8-R12, SP and PC
\* are never in the set.
C24_PushT1 ==
    call.fn = "decode_PUSH_t1" =>
        /\ ret.instr.op = "PUSH"
        /\ ~ret.instr.thumb32
        /\ \A i \in 0..7 :
              (RegNames[i + 1] \in ret.instr.registers) = get_bit(call.opcode16, i)
        /\ ("LR" \in ret.instr.registers) = get_bit(call.opcode16, 8)
        /\ ret.instr.registers \cap {"R8", "R9", "R10", "R11", "R12", "SP", "PC"} = {}

\* PUSH {R0, R2, R7, LR}, opcode 0xB585
C24_Witness ==
    /\ call.fn = "decode_PUSH_t1"
    /\ call.opcode16 = \hB585
    /\ ret.instr.registers = {"R0", "R2", "R7", "LR"}
    /\ ~ret.instr.thumb32

\* C25: for every opcode and every i in 0..15, decode_PUSH_t2 puts register i
\* in the set exactly when bit i of the low halfword of the opcode is set.
C25_PushT2AllSixteen ==
    call.fn = "decode_PUSH_t2" =>
        \A i \in 0..15 :
            (RegNames[i + 1] \in ret.instr.registers) = get_bit(Lo(call.opcode32), i)

-----------------------------------------------------------------------------
(* Executor (design section 4.4): STR and LDR (immediate) with the *)
(* (index, add, wback) triple                                      *)

\* the value of a register other than PC: SP is held apart from the file
RegValue(rf, stack, r) == IF r = "SP" THEN stack ELSE rf[r]

\* offset = rn +/- imm32; the accessed address is the offset if index, else rn;
\* the word of rt is stored there; if wback, rn becomes the offset after the
\* access; a faulted access changes nothing
exec_STR_imm(instr, rf, stack, m) ==
    LET base == RegValue(rf, stack, instr.rn)
        offset == IF instr.add THEN Add32(base, instr.imm32)
                  ELSE Sub32(base, instr.imm32)
        address == IF instr.index THEN offset ELSE base
    IN  IF BusMatrix_access(address, 32, TRUE) = "fault"
        THEN [fault |-> TRUE, addr |-> address, mem |-> m, regfile |-> rf, sp |-> stack]
        ELSE [fault |-> FALSE, addr |-> address,
              mem |-> Mem_write32(m, address, RegValue(rf, stack, instr.rt)),
              regfile |-> IF instr.wback /\ instr.rn # "SP"
                          THEN [rf EXCEPT ![instr.rn] = offset] ELSE rf,
              sp |-> IF instr.wback /\ instr.rn = "SP" THEN offset ELSE stack]

\* offset and accessed address as for the store; the word read there goes to
\* rt; if wback, rn becomes the offset after the access; a faulted access
\* changes nothing
exec_LDR_imm(instr, rf, stack, m) ==
    LET base == RegValue(rf, stack, instr.rn)
        offset == IF instr.add THEN Add32(base, instr.imm32)
                  ELSE Sub32(base, instr.imm32)
        address == IF instr.index THEN offset ELSE base
        loaded == [rf EXCEPT ![instr.rt] = Mem_read32(m, address)]
    IN  IF BusMatrix_access(address, 32, FALSE) = "fault"
        THEN [fault |-> TRUE, addr |-> address, mem |-> m, regfile |-> rf, sp |-> stack]
        ELSE [fault |-> FALSE, addr |-> address, mem |-> m,
              regfile |-> IF instr.wback /\ instr.rn # "SP"
                          THEN [loaded EXCEPT ![instr.rn] = offset] ELSE loaded,
              sp |-> IF instr.wback /\ instr.rn = "SP" THEN offset ELSE stack]

-----------------------------------------------------------------------------
(* SpecStore: the STR (immediate) decoders, each followed by the store, and *)
(* LDR (immediate) instruction values, each followed by the load            *)

\* values of Instruction::LDR_imm: the destination is the base register or
\* another one, the base is a register of the file or SP, with every
\* (index, add, wback)
LdrInstrs ==
    [op : {"LDR_imm"}, rt : {"R0", "R1"}, rn : {"R1", "SP"},
     imm32 : {W(0, 0), W(0, 4), W(0, 255)},
     index : BOOLEAN, add : BOOLEAN, wback : BOOLEAN, thumb32 : {TRUE}]

\* SRAM with a different word at every word address
FilledMem ==
    [a \in {AddSmall32(SRAM_BASE, 4 * k) : k \in 0..((SramLen \div 4) - 1)} |->
        W(\hABCD, Lo(a))]

\* STR rt, [rn, #imm5*4]
StrT1Opcodes ==
    {\h6000 + imm5 * 64 + n * 8 + t : imm5 \in {0, 1, 31}, n \in {1, 3}, t \in {0, 1}}

\* STR rt, [SP, #imm8*4]
StrT2Opcodes == {\h9000 + t * 256 + imm8 : t \in {0, 7}, imm8 \in {0, 1, 255}}

\* STR rt, [rn, #+/-imm8] with every P (bit 10), U (bit 9), W (bit 8)
StrT4Opcodes ==
    {W(\hF840 + n, t * 4096 + \h0800 + puw * 256 + imm8) :
        n \in {1, 13}, t \in {0, 2}, puw \in 0..7, imm8 \in {0, 4, 255}}

\* register files whose registers point into SRAM: spread over the middle, and
\* packed at the bottom, where subtracting an offset leaves SRAM
StoreRegFiles ==
    {[r \in CoreRegs |-> W(\h2000, \h0100 + 16 * Reg_index(r))],
     [r \in CoreRegs |-> W(\h2000, 4 * Reg_index(r))]}

StoreStackPointers == {W(\h2000, \h0200), W(\h2000, \h0004)}

\* the part of the state neither the store nor an SP adjustment touches
execFrame == <<overflow_checks, phase, image, pc, tbit, count, max_instructions,
               last, resp, stdout, returned, itstate>>

\* the run loop has not started
ExecIdle ==
    /\ itstate = ItInactive
    /\ phase = "idle"
    /\ image = <<>>
    /\ pc = Zero32
    /\ tbit = TRUE
    /\ count = 0
    /\ max_instructions = [limited |-> FALSE, n |-> 0]
    /\ last = NoStep
    /\ resp = NoResp
    /\ stdout = <<>>
    /\ returned = -1

InitStore ==
    /\ call \in {[fn |-> "pending", dec |-> "STR_imm_t1", opcode16 |-> o] :
                    o \in StrT1Opcodes}
            \cup {[fn |-> "pending", dec |-> "STR_imm_t2", opcode16 |-> o] :
                     o \in StrT2Opcodes}
            \cup {[fn |-> "pending", dec |-> "STR_imm_t4", opcode32 |-> o] :
                     o \in StrT4Opcodes}
            \cup {[fn |-> "pending", dec |-> "none", instr |-> i] : i \in LdrInstrs}
    /\ regfile \in StoreRegFiles
    /\ sp \in StoreStackPointers
    /\ mem \in {NoMem, FilledMem}
    /\ ret = NoRet
    /\ psr = ClearFlags
    /\ overflow_checks = FALSE
    /\ ExecIdle

\* the store of a decoded STR (immediate)
StoreOf(instr) ==
    LET r == exec_STR_imm(instr, regfile, sp, mem)
    IN  /\ mem' = r.mem
        /\ regfile' = r.regfile
        /\ sp' = r.sp
        /\ ret' = [panic |-> r.fault, none |-> FALSE, addr |-> r.addr]
        /\ UNCHANGED <<psr, execFrame>>

StoreStep16 ==
    /\ call.fn = "pending"
    /\ "opcode16" \in DOMAIN call
    /\ LET instr == Decode16(call.dec, call.opcode16)
       IN  /\ call' = [fn |-> "STR_imm", dec |-> call.dec,
                       opcode16 |-> call.opcode16, instr |-> instr]
           /\ StoreOf(instr)

StoreStep32 ==
    /\ call.fn = "pending"
    /\ "opcode32" \in DOMAIN call
    /\ LET instr == Decode32(call.dec, call.opcode32)
       IN  /\ call' = [fn |-> "STR_imm", dec |-> call.dec,
                       opcode32 |-> call.opcode32, instr |-> instr]
           /\ StoreOf(instr)

\* the load of an LDR (immediate)
LoadStep ==
    /\ call.fn = "pending"
    /\ "instr" \in DOMAIN call
    /\ LET r == exec_LDR_imm(call.instr, regfile, sp, mem)
       IN  /\ call' = [call EXCEPT !.fn = "LDR_imm"]
           /\ mem' = r.mem
           /\ regfile' = r.regfile
           /\ sp' = r.sp
           /\ ret' = [panic |-> r.fault, none |-> FALSE, addr |-> r.addr]
    /\ UNCHANGED <<psr, execFrame>>

NextStore == StoreStep16 \/ StoreStep32 \/ LoadStep

SpecStore == InitStore /\ [][NextStore]_vars

\* a load or store was carried out in the step
AccessStep == call.fn = "pending" /\ call'.fn \in {"STR_imm", "LDR_imm"}

\* what the decoders of STR (immediate) put into the triple
StrDecoderTriples ==
    /\ call.dec \in {"STR_imm_t1", "STR_imm_t2"} =>
          /\ call'.instr.index /\ call'.instr.add /\ ~call'.instr.wback
          /\ RegValue(regfile', sp', call'.instr.rn)
                = RegValue(regfile, sp, call'.instr.rn)
    /\ call.dec = "STR_imm_t4" =>
          /\ call'.instr.index = get_bit32(call.opcode32, 10)
          /\ call'.instr.add = get_bit32(call.opcode32, 9)
          /\ call'.instr.wback = get_bit32(call.opcode32, 8)

\* C26, as amended: a load/store with operands (index, add, wback) accesses
\* rn +/- imm32 when index is true and rn otherwise; a store, and a load whose
\* destination is not rn, changes rn (to rn +/- imm32) only when wback is
\* true, while a load into rn without wback leaves the loaded word in rn;
\* decode_STR_imm_t1 and decode_STR_imm_t2 always yield index = true, add =
\* true, wback = false and never modify rn; decode_STR_imm_t4 takes index,
\* add, wback from opcode bits 10, 9, 8.
C26_IndexAddWback ==
    [][AccessStep =>
          LET i == call'.instr
              base == RegValue(regfile, sp, i.rn)
              offset == IF i.add THEN Add32(base, i.imm32) ELSE Sub32(base, i.imm32)
              after == RegValue(regfile', sp', i.rn)
              loadsBase == i.op = "LDR_imm" /\ i.rt = i.rn
          IN  /\ ret'.addr = IF i.index THEN offset ELSE base
              /\ ~loadsBase => (after # base => i.wback /\ after = offset)
              /\ (i.wback /\ ~ret'.panic) => after = offset
              /\ (loadsBase /\ ~i.wback /\ ~ret'.panic) =>
                    after = Mem_read32(mem, ret'.addr)
              /\ ret'.panic => after = base
              /\ StrDecoderTriples]_vars

\* C26, as claimed: a load/store with operands (index, add, wback) accesses
\* rn +/- imm32 when index is true and rn otherwise, and changes rn (to rn +/-
\* imm32) only when wback is true; with the same statement about the decoders
\* of STR (immediate).
C26_AsClaimed ==
    [][AccessStep =>
          LET i == call'.instr
              base == RegValue(regfile, sp, i.rn)
              offset == IF i.add THEN Add32(base, i.imm32) ELSE Sub32(base, i.imm32)
              after == RegValue(regfile', sp', i.rn)
          IN  /\ ret'.addr = IF i.index THEN offset ELSE base
              /\ after # base => i.wback /\ after = offset
              /\ (i.wback /\ ~ret'.panic) => after = offset
              /\ StrDecoderTriples]_vars

\* LDR R1, [R1, #4] without write-back: R1 pointed at 0x20000110 and now holds
\* the word that was at 0x20000114
C26_Witness ==
    /\ call.fn = "LDR_imm"
    /\ call.instr.rt = "R1"
    /\ call.instr.rn = "R1"
    /\ call.instr.index /\ call.instr.add /\ ~call.instr.wback
    /\ call.instr.imm32 = W(0, 4)
    /\ ~ret.panic
    /\ ret.addr = W(\h2000, \h0114)
    /\ regfile["R1"] = W(\hABCD, \h0114)

-----------------------------------------------------------------------------
(* decoder/add.rs, decoder/sub.rs: the SP-relative immediate forms *)

\* core::bits: bits_a_b(v) is the field of v from bit a up to, not including,
\* bit b
bits_0_7(v) == get_bits(v, 0, 7)

bits_0_8(v) == get_bits(v, 0, 8)

bits_8_11(v) == get_bits(v, 8, 11)

\* ADD rd, SP, #imm8*4
decode_ADD_SP_imm_t1(command) ==
    [op |-> "ADD_imm",
     rd |-> Reg_from(bits_8_11(command)),
     rn |-> "SP",
     imm32 |-> W(0, bits_0_8(command) * 4),
     setflags |-> FALSE]

\* ADD SP, SP, #imm7*4
decode_ADD_SP_imm_t2(command) ==
    [op |-> "ADD_imm",
     rd |-> "SP",
     rn |-> "SP",
     imm32 |-> W(0, bits_0_7(command) * 4),
     setflags |-> FALSE]

\* decode_SUB_SP_imm_t1 that takes the immediate without the shift by 2
decode_SUB_SP_imm_t1_Unscaled(command) ==
    [op |-> "SUB_imm",
     rn |-> "SP",
     rd |-> "SP",
     imm32 |-> W(0, get_bits(command, 0, 7)),
     setflags |-> FALSE]

\* SUB SP, SP, #imm7*4
decode_SUB_SP_imm_t1(command) ==
    [op |-> "SUB_imm",
     rn |-> "SP",
     rd |-> "SP",
     imm32 |-> W(0, get_bits(command, 0, 7) * 4),
     setflags |-> FALSE]

-----------------------------------------------------------------------------
(* Executor (design section 4.4): ADD and SUB (immediate) *)

\* ADD: AddWithCarry(rn, imm32, 0); SUB: AddWithCarry(rn, NOT imm32, 1); the
\* result goes to rd, and to the flags if setflags; an adder that panics
\* leaves the state as it was
exec_ADD_SUB_imm(instr, rf, stack, flags) ==
    LET x == RegValue(rf, stack, instr.rn)
        r == IF instr.op = "ADD_imm" THEN add_with_carry(x, instr.imm32, FALSE)
             ELSE add_with_carry(x, Not32(instr.imm32), TRUE)
    IN  IF r.panic
        THEN [panic |-> TRUE, regfile |-> rf, sp |-> stack, psr |-> flags]
        ELSE [panic |-> FALSE,
              regfile |-> IF instr.rd # "SP" THEN [rf EXCEPT ![instr.rd] = r.result]
                          ELSE rf,
              sp |-> IF instr.rd = "SP" THEN r.result ELSE stack,
              psr |-> IF instr.setflags THEN SetFlagsFrom(r) ELSE flags]

-----------------------------------------------------------------------------
(* SpecSpAdjust: the SP-relative decoders over every immediate, each *)
(* followed by the addition or subtraction                           *)

SpDecoders == {"ADD_SP_imm_t1", "ADD_SP_imm_t2", "SUB_SP_imm_t1"}

DecodeSp(dec, command) ==
    CASE dec = "ADD_SP_imm_t1" -> decode_ADD_SP_imm_t1(command)
      [] dec = "ADD_SP_imm_t2" -> decode_ADD_SP_imm_t2(command)
      [] dec = "SUB_SP_imm_t1" -> decode_SUB_SP_imm_t1(command)

SpOpcodes(dec) ==
    CASE dec = "ADD_SP_imm_t1" -> {\hA800 + d * 256 + imm8 : d \in {0, 7}, imm8 \in 0..255}
      [] dec = "ADD_SP_imm_t2" -> {\hB000 + imm7 : imm7 \in 0..127}
      [] dec = "SUB_SP_imm_t1" -> {\hB080 + imm7 : imm7 \in 0..127}

\* the top, the bottom and the last word of SRAM, the ends of the address
\* space and of the positive i32 range, and a value that is not aligned
AdjustStackPointers ==
    {AddSmall32(SRAM_BASE, SramLen), SRAM_BASE, W(\h2000, \h03FC), Zero32,
     W(\hFFFF, \hFFFC), W(\h7FFF, \hFFFC), W(\h8000, 0), W(\h2000, \h0102)}

InitSpAdjust ==
    /\ \E dec \in SpDecoders : \E o \in SpOpcodes(dec) :
          call = [fn |-> "pending", dec |-> dec, opcode16 |-> o]
    /\ sp \in AdjustStackPointers
    /\ regfile = ResetRegs
    /\ mem = NoMem
    /\ ret = NoRet
    /\ psr = ClearFlags
    /\ overflow_checks \in BOOLEAN
    /\ ExecIdle

SpAdjustStep ==
    /\ call.fn = "pending"
    /\ LET instr == DecodeSp(call.dec, call.opcode16)
           r == exec_ADD_SUB_imm(instr, regfile, sp, psr)
       IN  /\ call' = [fn |-> "sp_adjust", dec |-> call.dec,
                       opcode16 |-> call.opcode16, instr |-> instr]
           /\ ret' = [panic |-> r.panic, none |-> FALSE]
           /\ regfile' = r.regfile
           /\ sp' = r.sp
           /\ psr' = r.psr
    /\ UNCHANGED <<mem, execFrame>>

NextSpAdjust == SpAdjustStep

SpecSpAdjust == InitSpAdjust /\ [][NextSpAdjust]_vars

\* C27: for every opcode decode_ADD_SP_imm_t1, decode_ADD_SP_imm_t2 and
\* decode_SUB_SP_imm_t1 produce an imm32 that is a multiple of 4 with setflags
\* = false, so an SP that is 4-byte aligned before ADD SP,#imm or SUB SP,#imm
\* is 4-byte aligned after it.
C27_SpStaysAligned ==
    [][(call.fn = "pending" /\ call'.fn = "sp_adjust") =>
          LET i == call'.instr
          IN  /\ Lo(i.imm32) % 4 = 0
              /\ ~i.setflags
              /\ psr' = psr
              /\ Aligned(sp, 32) => Aligned(sp', 32)
              /\ (i.rd = "SP" /\ ~ret'.panic) =>
                    sp' = IF i.op = "ADD_imm" THEN Add32(sp, i.imm32)
                          ELSE Sub32(sp, i.imm32)]_vars

\* SUB SP, #508 (opcode 0xB0FF) from the top of SRAM
C27_Witness ==
    /\ call.fn = "sp_adjust"
    /\ call.dec = "SUB_SP_imm_t1"
    /\ call.opcode16 = \hB0FF
    /\ call.instr.imm32 = W(0, 508)
    /\ ~ret.panic
    /\ sp = W(\h2000, \h0204)

-----------------------------------------------------------------------------
(* SpecPair: condition_passed on both conditions of a pair, over every NZCV *)

ConditionPairs ==
    {<<"EQ", "NE">>, <<"CS", "CC">>, <<"MI", "PL">>, <<"VS", "VC">>,
     <<"HI", "LS">>, <<"GE", "LT">>, <<"GT", "LE">>}

InitPair ==
    /\ call \in [fn : {"pending"}, pair : ConditionPairs]
    /\ ret = NoRet
    /\ psr \in Flags
    /\ overflow_checks = FALSE
    /\ RunIdle

\* condition_passed on the first and on the second condition, same PSR
PairCall ==
    /\ call.fn = "pending"
    /\ call' = [call EXCEPT !.fn = "condition_passed"]
    /\ ret' = [panic |-> FALSE, none |-> FALSE,
               first |-> condition_passed(call.pair[1], psr),
               second |-> condition_passed(call.pair[2], psr)]
    /\ UNCHANGED <<psr, overflow_checks, runVars>>

NextPair == PairCall

SpecPair == InitPair /\ [][NextPair]_vars

\* C28: for every PSR value condition_passed gives opposite answers for EQ/NE,
\* CS/CC, MI/PL, VS/VC, HI/LS, GE/LT and GT/LE: exactly one condition of each
\* pair passes.
C28_ComplementaryPairs ==
    call.fn = "condition_passed" =>
        ret.first # ret.second

\* with C and Z both set, of HI/LS it is HI that passes
C28_Witness ==
    /\ call.fn = "condition_passed"
    /\ call.pair = <<"HI", "LS">>
    /\ psr.c /\ psr.z
    /\ ret.first
    /\ ~ret.second

-----------------------------------------------------------------------------
(* decoder/ror.rs: decode_ROR_imm_t1 *)

\* rm = bits 0..4, rd = bits 8..12, s = bit 20, imm3 = bits 12..15, imm2 = bits
\* 6..8; the amount is the second component of decode_imm_shift(0b11,
\* (imm3 << 2) + imm2), the shift type is dropped
decode_ROR_imm_t1(opcode) ==
    LET rm == get_bits32(opcode, 0, 4)
        rd == get_bits32(opcode, 8, 12)
        imm3 == get_bits32(opcode, 12, 15)
        imm2 == get_bits32(opcode, 6, 8)
        decoded == decode_imm_shift(3, imm3 * 4 + imm2)
    IN  IF decoded.panic THEN Panic
        ELSE [panic |-> FALSE, none |-> FALSE,
              instr |-> [op |-> "ROR_imm",
                         rd |-> Reg_from(rd),
                         rm |-> Reg_from(rm),
                         setflags |-> get_bit32(opcode, 20),
                         shift_n |-> decoded.shift_n]]

-----------------------------------------------------------------------------
(* SpecRor: decode_ROR_imm_t1 over every imm3:imm2, both S, sample registers *)

RorOpcodes ==
    {W(\hEA4F + s * 16, imm3 * 4096 + d * 256 + imm2 * 64 + \h30 + m) :
        s \in 0..1, imm3 \in 0..7, imm2 \in 0..3, d \in {0, 3}, m \in {1, 12}}

InitRor ==
    /\ call \in [fn : {"pending"}, opcode32 : RorOpcodes]
    /\ ret = NoRet
    /\ psr = ClearFlags
    /\ overflow_checks = FALSE
    /\ RunIdle

RorImmCall ==
    /\ call.fn = "pending"
    /\ call' = [call EXCEPT !.fn = "decode_ROR_imm_t1"]
    /\ ret' = decode_ROR_imm_t1(call.opcode32)
    /\ UNCHANGED <<psr, overflow_checks, runVars>>

NextRor == RorImmCall

SpecRor == InitRor /\ [][NextRor]_vars

\* C30: for every 32-bit opcode decode_ROR_imm_t1 returns a ROR_imm whose
\* shift_n equals the 5-bit field imm3:imm2 of the opcode (bits 14..12 and
\* 7..6).
C30_RorAmountIsField ==
    call.fn = "decode_ROR_imm_t1" =>
        /\ ~ret.panic
        /\ ret.instr.op = "ROR_imm"
        /\ ret.instr.shift_n =
              get_bits32(call.opcode32, 12, 15) * 4 + get_bits32(call.opcode32, 6, 8)

====
